---- MODULE Spec2Model ----
(***************************************************************************)
(* State-machine model of the ESP8266 simulator core:                      *)
(*   - GPIOManager      (src/src/engine/gpioManager.js)                    *)
(*   - SimulatorEngine  (src/src/store/useSimulatorStore.js, l. 134-527)   *)
(*   - validateCode / compileFunctions (src/src/engine/parser.js)          *)
(*   - EventBus         (src/src/engine/eventBus.js)                       *)
(*                                                                         *)
(* One step of the engine specification is one host macro-task: a public   *)
(* API call, or one timer callback together with every promise             *)
(* continuation it triggers (the microtasks run before the next timer).    *)
(* Events published through the bus during a step are collected, in        *)
(* publish order, in the variable `emitted`.  _sourceCode and _startTime   *)
(* are not state of the model: the engine only writes them (they feed      *)
(* console.error and millis()), no branch of the engine reads them.        *)
(***************************************************************************)
EXTENDS Integers, Sequences, FiniteSets, TLC

VARIABLES
    state,        \* SimulatorEngine._state
    running,      \* SimulatorEngine._running
    loopTimeout,  \* SimulatorEngine._loopTimeout (0 models null)
    compiled,     \* SimulatorEngine._compiled (name of the compiled source, "null")
    loopCount,    \* SimulatorEngine._loopCount
    timers,       \* host timer queue: pending setTimeout callbacks, in arming order
    pins,         \* GPIOManager._pins
    components,   \* GPIOManager._components
    emitted,      \* events published by the most recent step, in order
    last,         \* what the most recent step did (observation record)
    listeners,    \* EventBus._listeners: topic -> handlers in subscription order
    history,      \* EventBus._history
    busLast       \* what the most recent bus operation did (observation record)

vars == <<state, running, loopTimeout, compiled, loopCount,
          timers, pins, components, emitted, last, listeners, history, busLast>>

busVars == <<listeners, history, busLast>>

engineVars == <<state, running, loopTimeout, compiled, loopCount, timers>>

----------------------------------------------------------------------------
(* Bounds of the model *)

\* start() is offered only while fewer than this many invocation chains are alive
MaxChains == 2
\* run() is offered only while fewer than this many run() pauses are pending
MaxRunPauses == 1
\* iterations counted by _loopCount before the model stops completing iterations
MaxLoopCount == 1
\* iterations counted by _loopCount in the specification of the uninterrupted loop
MaxLiveLoops == 3
\* components registered at once in the pin specification
MaxComponents == 1
\* components registered at once in the registry specification
MaxRegistered == 3
\* subscriptions are offered only while fewer than this many handlers are subscribed
MaxListeners == 3
\* emit is offered only while fewer than this many events were published since Init
MaxPublishes == 3

----------------------------------------------------------------------------
(* Generic helpers *)

Min(a, b) == IF a < b THEN a ELSE b
Max(a, b) == IF a > b THEN a ELSE b

RemoveAt(s, i) == [j \in 1..(Len(s) - 1) |-> IF j < i THEN s[j] ELSE s[j + 1]]

\* An event as published on the bus: topic plus the payload fields the model keeps.
Ev(topic, type, msg, pin, value, pwm) ==
    [topic |-> topic, type |-> type, msg |-> msg, pin |-> pin, value |-> value, pwm |-> pwm]

SerialLog(type, msg) == Ev("serial-log", type, msg, -1, -1, -1)

----------------------------------------------------------------------------
(* GPIOManager *)

LOW == 0
HIGH == 1

PIN_MODE == {"INPUT", "OUTPUT", "INPUT_PULLUP"}

VALID_GPIOS == {0, 1, 2, 3, 4, 5, 12, 13, 14, 15, 16, 17}

PWM_MAX == 1023

\* the pin without hardware PWM
SOFT_PWM_GPIO == 16

\* mode "NONE" models null
PinDefault == [mode |-> "NONE", value |-> LOW, pwmValue |-> 0, isPWM |-> FALSE]

initializePins == [g \in VALID_GPIOS |-> PinDefault]

\* result of a pin operation that threw: nothing mutated, nothing published
Thrown(P) == [ok |-> FALSE, pins |-> P, evs |-> <<>>]

\* _components is a Map gpio -> array, modelled as the sequence of its entries in
\* key-insertion order; MapGet is Map.get (an absent key reads as no components)
MapHas(C, gpio) == \E i \in 1..Len(C) : C[i].gpio = gpio

MapIndex(C, gpio) == CHOOSE i \in 1..Len(C) : C[i].gpio = gpio

MapGet(C, gpio) == IF MapHas(C, gpio) THEN C[MapIndex(C, gpio)].comps ELSE << >>

\* A pin identifier as the JavaScript value a caller passes: a number, or a
\* string, kept as the sequence of its characters.
Num(n) == [type |-> "number", num |-> n, str |-> << >>]

Str(s) == [type |-> "string", num |-> 0, str |-> s]

LowerCase == << "a", "b", "c", "d", "e", "f", "g", "h", "i", "j", "k", "l", "m",
                "n", "o", "p", "q", "r", "s", "t", "u", "v", "w", "x", "y", "z" >>

UpperCase == << "A", "B", "C", "D", "E", "F", "G", "H", "I", "J", "K", "L", "M",
                "N", "O", "P", "Q", "R", "S", "T", "U", "V", "W", "X", "Y", "Z" >>

\* String.prototype.toUpperCase
toUpperCase(s) ==
    [i \in 1..Len(s) |->
        IF \E k \in 1..Len(LowerCase) : LowerCase[k] = s[i]
        THEN UpperCase[CHOOSE k \in 1..Len(LowerCase) : LowerCase[k] = s[i]]
        ELSE s[i]]

Digits == << "0", "1", "2", "3", "4", "5", "6", "7", "8", "9" >>

IsDigit(c) == \E k \in 1..Len(Digits) : Digits[k] = c

DigitValue(c) == (CHOOSE k \in 1..Len(Digits) : Digits[k] = c) - 1

\* parseInt(s, 10): leading blanks skipped, an optional sign, then the longest
\* run of decimal digits; nan when that run is empty
parseInt(s) ==
    LET RECURSIVE SkipBlanks(_)
        SkipBlanks(i) == IF i <= Len(s) /\ s[i] = " " THEN SkipBlanks(i + 1) ELSE i
        b     == SkipBlanks(1)
        neg   == b <= Len(s) /\ s[b] = "-"
        first == IF b <= Len(s) /\ s[b] \in {"+", "-"} THEN b + 1 ELSE b
        RECURSIVE Run(_, _)
        Run(i, acc) == IF i <= Len(s) /\ IsDigit(s[i])
                       THEN Run(i + 1, 10 * acc + DigitValue(s[i]))
                       ELSE [next |-> i, value |-> acc]
        r     == Run(first, 0)
    IN  IF r.next = first THEN [nan |-> TRUE, value |-> 0]
        ELSE [nan |-> FALSE, value |-> IF neg THEN 0 - r.value ELSE r.value]

ESP8266_PIN_MAP ==
    (<< "D", "0" >> :> 16) @@ (<< "D", "1" >> :> 5) @@ (<< "D", "2" >> :> 4)
    @@ (<< "D", "3" >> :> 0) @@ (<< "D", "4" >> :> 2) @@ (<< "D", "5" >> :> 14)
    @@ (<< "D", "6" >> :> 12) @@ (<< "D", "7" >> :> 13) @@ (<< "D", "8" >> :> 15)
    @@ (<< "A", "0" >> :> 17)

LED_BUILTIN == << "L", "E", "D", "_", "B", "U", "I", "L", "T", "I", "N" >>

\* A variant of resolvePin that reads a string it does not know as the built-in
\* LED; C24_InvalidPinRejected does not hold of a pin manager built with it.
resolvePinDefaultsToLed(pin) ==
    IF pin.type = "string"
    THEN LET upper  == toUpperCase(pin.str)
             parsed == parseInt(pin.str)
         IN  IF upper \in DOMAIN ESP8266_PIN_MAP
             THEN [ok |-> TRUE, gpio |-> Num(ESP8266_PIN_MAP[upper])]
             ELSE IF ~parsed.nan THEN [ok |-> TRUE, gpio |-> Num(parsed.value)]
             ELSE [ok |-> TRUE, gpio |-> Num(2)]
    ELSE [ok |-> TRUE, gpio |-> pin]

\* resolvePin: ok = FALSE when it throws; a value that is not a string is
\* returned as it is
resolvePin(pin) ==
    IF pin.type = "string"
    THEN LET upper  == toUpperCase(pin.str)
             parsed == parseInt(pin.str)
         IN  IF upper = LED_BUILTIN THEN [ok |-> TRUE, gpio |-> Num(2)]
             ELSE IF upper \in DOMAIN ESP8266_PIN_MAP
             THEN [ok |-> TRUE, gpio |-> Num(ESP8266_PIN_MAP[upper])]
             ELSE IF ~parsed.nan THEN [ok |-> TRUE, gpio |-> Num(parsed.value)]
             ELSE [ok |-> FALSE, gpio |-> pin]
    ELSE [ok |-> TRUE, gpio |-> pin]

\* _validateGpio: Array.includes compares without conversion, so a string is
\* never among the valid ids
validateGpio(gpio) == gpio.type = "number" /\ gpio.num \in VALID_GPIOS

\* resolvePin followed by _validateGpio, as the Arduino operations begin
Resolves(pin) == resolvePin(pin).ok /\ validateGpio(resolvePin(pin).gpio)

notifyComponents(C, gpio, value, analogValue) ==
    LET cs == MapGet(C, gpio)
    IN  [i \in 1..Len(cs) |->
            Ev("component-update", cs[i].type, cs[i].id, gpio, value, analogValue)]

\* A variant of pinMode that takes a reconfigured pin out of PWM; of a pin manager
\* built with it C29_PinModeFrame does not hold.
pinModeStopsPwm(P, pin, mode) ==
    LET gpio == resolvePin(pin).gpio.num IN
    IF ~Resolves(pin) THEN Thrown(P)
    ELSE IF mode \notin PIN_MODE THEN Thrown(P)
    ELSE LET v  == IF mode = "INPUT_PULLUP" THEN HIGH ELSE P[gpio].value
             P2 == [P EXCEPT ![gpio].mode = mode, ![gpio].value = v,
                             ![gpio].isPWM = FALSE]
         IN  [ok |-> TRUE, pins |-> P2,
              evs |-> << Ev("pin-change", mode, "", gpio, v, -1) >>]

pinMode(P, pin, mode) ==
    LET gpio == resolvePin(pin).gpio.num IN
    IF ~Resolves(pin) THEN Thrown(P)
    ELSE IF mode \notin PIN_MODE THEN Thrown(P)
    ELSE LET v  == IF mode = "INPUT_PULLUP" THEN HIGH ELSE P[gpio].value
             P2 == [P EXCEPT ![gpio].mode = mode, ![gpio].value = v]
         IN  [ok |-> TRUE, pins |-> P2,
              evs |-> << Ev("pin-change", mode, "", gpio, v, -1) >>]

\* A variant of digitalWrite that sets the level and leaves the PWM fields as
\* they are; C22_DigitalWriteSnapsDuty does not hold of a pin manager built with it.
digitalWriteKeepsPwm(P, C, pin, value) ==
    LET gpio == resolvePin(pin).gpio.num IN
    IF ~Resolves(pin) THEN Thrown(P)
    ELSE LET nv   == IF value # 0 THEN HIGH ELSE LOW
             P2   == [P EXCEPT ![gpio].value = nv]
         IN  [ok |-> TRUE, pins |-> P2,
              evs |-> << Ev("pwm-change", "", "", gpio, P2[gpio].pwmValue, P2[gpio].pwmValue),
                         Ev("pin-change", P2[gpio].mode, "", gpio, nv, P2[gpio].pwmValue) >>
                      \o notifyComponents(C, gpio, nv, P2[gpio].pwmValue)]

\* A variant of digitalWrite that warns only while the mode is unset, as
\* digitalRead does; C26_DigitalWriteWarnsUnlessOutput does not hold of a pin
\* manager built with it.
digitalWriteWarnsOnlyUnset(P, C, pin, value) ==
    LET gpio == resolvePin(pin).gpio.num IN
    IF ~Resolves(pin) THEN Thrown(P)
    ELSE LET warn == IF P[gpio].mode = "NONE"
                     THEN << SerialLog("warn", "digitalWrite sin pinMode(OUTPUT)") >>
                     ELSE << >>
             nv   == IF value # 0 THEN HIGH ELSE LOW
             duty == IF nv = HIGH THEN PWM_MAX ELSE 0
             P2   == [P EXCEPT ![gpio].value = nv, ![gpio].isPWM = FALSE,
                               ![gpio].pwmValue = duty]
         IN  [ok |-> TRUE, pins |-> P2,
              evs |-> warn
                      \o << Ev("pwm-change", "", "", gpio, duty, duty),
                            Ev("pin-change", P2[gpio].mode, "", gpio, nv, duty) >>
                      \o notifyComponents(C, gpio, nv, duty)]

\* A variant of digitalWrite that publishes the pin-change before the pwm-change;
\* C27_WriteEventOrder does not hold of a pin manager built with it.
digitalWritePinChangeFirst(P, C, pin, value) ==
    LET gpio == resolvePin(pin).gpio.num IN
    IF ~Resolves(pin) THEN Thrown(P)
    ELSE LET warn == IF P[gpio].mode # "OUTPUT"
                     THEN << SerialLog("warn", "digitalWrite sin pinMode(OUTPUT)") >>
                     ELSE << >>
             nv   == IF value # 0 THEN HIGH ELSE LOW
             duty == IF nv = HIGH THEN PWM_MAX ELSE 0
             P2   == [P EXCEPT ![gpio].value = nv, ![gpio].isPWM = FALSE,
                               ![gpio].pwmValue = duty]
         IN  [ok |-> TRUE, pins |-> P2,
              evs |-> warn
                      \o << Ev("pin-change", P2[gpio].mode, "", gpio, nv, duty),
                            Ev("pwm-change", "", "", gpio, duty, duty) >>
                      \o notifyComponents(C, gpio, nv, duty)]

digitalWrite(P, C, pin, value) ==
    LET gpio == resolvePin(pin).gpio.num IN
    IF ~Resolves(pin) THEN Thrown(P)
    ELSE LET warn == IF P[gpio].mode # "OUTPUT"
                     THEN << SerialLog("warn", "digitalWrite sin pinMode(OUTPUT)") >>
                     ELSE << >>
             nv   == IF value # 0 THEN HIGH ELSE LOW
             duty == IF nv = HIGH THEN PWM_MAX ELSE 0
             P2   == [P EXCEPT ![gpio].value = nv, ![gpio].isPWM = FALSE,
                               ![gpio].pwmValue = duty]
         IN  [ok |-> TRUE, pins |-> P2,
              evs |-> warn
                      \o << Ev("pwm-change", "", "", gpio, duty, duty),
                            Ev("pin-change", P2[gpio].mode, "", gpio, nv, duty) >>
                      \o notifyComponents(C, gpio, nv, duty)]

digitalRead(P, pin) ==
    LET gpio == resolvePin(pin).gpio.num IN
    IF ~Resolves(pin) THEN [ok |-> FALSE, value |-> -1, evs |-> <<>>]
    ELSE [ok |-> TRUE, value |-> P[gpio].value,
          evs |-> IF P[gpio].mode = "NONE"
                  THEN << SerialLog("warn", "digitalRead sin configurar modo") >>
                  ELSE << >>]

\* A variant of analogWrite that reads a duty below half scale as Low;
\* C20_AnalogWriteThenRead does not hold of a pin manager built with it.
analogWriteHalfScale(P, C, pin, value) ==
    LET gpio == resolvePin(pin).gpio.num IN
    IF ~Resolves(pin) THEN Thrown(P)
    ELSE LET clampedValue == Max(0, Min(PWM_MAX, value))
             nv    == IF 2 * clampedValue > PWM_MAX THEN HIGH ELSE LOW
             P2    == [P EXCEPT ![gpio].isPWM = TRUE, ![gpio].pwmValue = clampedValue,
                                ![gpio].value = nv]
         IN  [ok |-> TRUE, pins |-> P2,
              evs |-> << Ev("pwm-change", "", "", gpio, clampedValue, clampedValue),
                         Ev("pin-change", P2[gpio].mode, "", gpio, nv, clampedValue) >>
                      \o notifyComponents(C, gpio, nv, clampedValue)]

\* A variant of analogWrite that wraps an out-of-range duty into 0..1023 instead
\* of clamping it; C21_AnalogWriteClamps does not hold of a pin manager built with it.
analogWriteWrapsDuty(P, C, pin, value) ==
    LET gpio == resolvePin(pin).gpio.num IN
    IF ~Resolves(pin) THEN Thrown(P)
    ELSE LET range == IF value < 0 \/ value > PWM_MAX
                      THEN << SerialLog("warn", "valor fuera de rango 0-1023, clamped") >>
                      ELSE << >>
             clampedValue == value % (PWM_MAX + 1)
             nv    == IF clampedValue > 0 THEN HIGH ELSE LOW
             P2    == [P EXCEPT ![gpio].isPWM = TRUE, ![gpio].pwmValue = clampedValue,
                                ![gpio].value = nv]
         IN  [ok |-> TRUE, pins |-> P2,
              evs |-> range
                      \o << Ev("pwm-change", "", "", gpio, clampedValue, clampedValue),
                            Ev("pin-change", P2[gpio].mode, "", gpio, nv, clampedValue) >>
                      \o notifyComponents(C, gpio, nv, clampedValue)]

\* A variant of analogWrite that never lowers the stored duty; of a pin manager
\* built with it C23_AnalogSupersedesDigital does not hold.
analogWriteKeepsHigherDuty(P, C, pin, value) ==
    LET gpio == resolvePin(pin).gpio.num IN
    IF ~Resolves(pin) THEN Thrown(P)
    ELSE LET clampedValue == Max(P[gpio].pwmValue, Max(0, Min(PWM_MAX, value)))
             nv    == IF clampedValue > 0 THEN HIGH ELSE LOW
             P2    == [P EXCEPT ![gpio].isPWM = TRUE, ![gpio].pwmValue = clampedValue,
                                ![gpio].value = nv]
         IN  [ok |-> TRUE, pins |-> P2,
              evs |-> << Ev("pwm-change", "", "", gpio, clampedValue, clampedValue),
                         Ev("pin-change", P2[gpio].mode, "", gpio, nv, clampedValue) >>
                      \o notifyComponents(C, gpio, nv, clampedValue)]

\* duties are integers here, on which Math.round is the identity
analogWrite(P, C, pin, value) ==
    LET gpio == resolvePin(pin).gpio.num IN
    IF ~Resolves(pin) THEN Thrown(P)
    ELSE LET range == IF value < 0 \/ value > PWM_MAX
                      THEN << SerialLog("warn", "valor fuera de rango 0-1023, clamped") >>
                      ELSE << >>
             clampedValue == Max(0, Min(PWM_MAX, value))
             modeW == IF P[gpio].mode # "OUTPUT" /\ P[gpio].mode # "NONE"
                      THEN << SerialLog("warn", "analogWrite sin pinMode(OUTPUT)") >>
                      ELSE << >>
             soft  == IF gpio = SOFT_PWM_GPIO
                      THEN << SerialLog("warn", "GPIO16 no soporta PWM hardware") >>
                      ELSE << >>
             nv    == IF clampedValue > 0 THEN HIGH ELSE LOW
             P2    == [P EXCEPT ![gpio].isPWM = TRUE, ![gpio].pwmValue = clampedValue,
                                ![gpio].value = nv]
         IN  [ok |-> TRUE, pins |-> P2,
              evs |-> range \o modeW \o soft
                      \o << Ev("pwm-change", "", "", gpio, clampedValue, clampedValue),
                            Ev("pin-change", P2[gpio].mode, "", gpio, nv, clampedValue) >>
                      \o notifyComponents(C, gpio, nv, clampedValue)]

\* A variant of setExternalValue that snaps the PWM fields to the level as
\* digitalWrite does; C28_SetExternalValueFrame does not hold of a pin manager
\* built with it.
setExternalValueSnapsPwm(P, pin, value) ==
    LET gpio == pin.num IN
    IF ~validateGpio(pin) THEN Thrown(P)
    ELSE LET nv == IF value # 0 THEN HIGH ELSE LOW
             P2 == [P EXCEPT ![gpio].value = nv, ![gpio].isPWM = FALSE,
                             ![gpio].pwmValue = IF nv = HIGH THEN PWM_MAX ELSE 0]
         IN  [ok |-> TRUE, pins |-> P2,
              evs |-> << Ev("pin-change", P2[gpio].mode, "", gpio, nv, -1) >>]

setExternalValue(P, pin, value) ==
    LET gpio == pin.num IN
    IF ~validateGpio(pin) THEN Thrown(P)
    ELSE LET nv == IF value # 0 THEN HIGH ELSE LOW
             P2 == [P EXCEPT ![gpio].value = nv]
         IN  [ok |-> TRUE, pins |-> P2,
              evs |-> << Ev("pin-change", P2[gpio].mode, "", gpio, nv, -1) >>]

\* getPinState: the record of the resolved pin; it validates nothing, and reads
\* a key the Map does not hold as undefined
getPinState(P, pin) ==
    LET r == resolvePin(pin)
    IN  IF ~r.ok THEN [ok |-> FALSE, known |-> FALSE, state |-> PinDefault]
        ELSE IF r.gpio.num \in DOMAIN P
        THEN [ok |-> TRUE, known |-> TRUE, state |-> P[r.gpio.num]]
        ELSE [ok |-> TRUE, known |-> FALSE, state |-> PinDefault]

\* A variant of GPIOManager.reset that clears levels and duties and keeps the
\* modes; C13_ResetRestoresDefaults does not hold of a pin manager built with it.
gpioResetKeepsModes(P) ==
    [ok |-> TRUE,
     pins |-> [g \in VALID_GPIOS |-> [PinDefault EXCEPT !.mode = P[g].mode]],
     evs |-> << Ev("gpio-reset", "", "", -1, -1, -1) >>]

\* GPIOManager.reset: pins back to defaults, components kept
gpioReset(P) ==
    [ok |-> TRUE, pins |-> initializePins, evs |-> << Ev("gpio-reset", "", "", -1, -1, -1) >>]

registerComponent(C, pin, id, type) ==
    LET gpio == resolvePin(pin).gpio.num IN
    IF ~Resolves(pin) THEN [ok |-> FALSE, comps |-> C, evs |-> << >>]
    ELSE LET C1 == IF MapHas(C, gpio) THEN C
                   ELSE Append(C, [gpio |-> gpio, comps |-> << >>])
             k  == MapIndex(C1, gpio)
             C2 == [C1 EXCEPT ![k].comps = Append(@, [id |-> id, type |-> type])]
         IN  [ok |-> TRUE, comps |-> C2,
              evs |-> << Ev("component-registered", type, id, gpio, -1, -1) >>]

\* index of the first Map entry holding a component with this id (0: none)
FirstEntryWith(C, id) ==
    LET hits == {i \in 1..Len(C) : \E j \in 1..Len(C[i].comps) : C[i].comps[j].id = id}
    IN  IF hits = {} THEN 0 ELSE CHOOSE i \in hits : \A k \in hits : i <= k

findIndex(cs, id) ==
    LET hits == {j \in 1..Len(cs) : cs[j].id = id}
    IN  IF hits = {} THEN 0 ELSE CHOOSE j \in hits : \A k \in hits : j <= k

unregisterComponent(C, id) ==
    LET e == FirstEntryWith(C, id)
    IN  IF e = 0 THEN [ok |-> TRUE, comps |-> C, evs |-> << >>]
        ELSE LET cs2 == RemoveAt(C[e].comps, findIndex(C[e].comps, id))
                 C2  == IF Len(cs2) = 0 THEN RemoveAt(C, e)
                        ELSE [C EXCEPT ![e].comps = cs2]
             IN  [ok |-> TRUE, comps |-> C2,
                  evs |-> << Ev("component-unregistered", "", id, -1, -1, -1) >>]

\* the ids of all registered components, as getAllComponents lists them
getAllComponents(C) ==
    UNION {{C[i].comps[j].id : j \in 1..Len(C[i].comps)} : i \in 1..Len(C)}

----------------------------------------------------------------------------
(* Sketches offered to load()/run(), and the parser's verdict on them *)

\* one statement of a sketch body; lit: the pin / duration is a numeric literal
Op(op, pin, val, mode, lit) ==
    [op |-> op, pin |-> pin, val |-> val, mode |-> mode, lit |-> lit]

\* the statement "helper();": a call of the sketch's own void function, whose
\* statements are body
Call(body) ==
    [op |-> "call", pin |-> -1, val |-> 0, mode |-> "", lit |-> TRUE, body |-> body]

\* A sketch: whether the text matches /void setup()/ and /void loop()/, whether
\* the translated text evaluates and binds __setup and __loop, and the two bodies.
\* fn: the body of the void function the sketch defines besides them, if any.
\* joined: each function of the sketch is written on one line of text, as in
\* "void setup() { pinMode(2, OUTPUT); pinMode(4, OUTPUT); }"; otherwise every
\* statement has a line of its own.
Sketch(hasSetup, hasLoop, binds, setupBody, loopBody) ==
    [hasSetup |-> hasSetup, hasLoop |-> hasLoop, binds |-> binds,
     setup |-> setupBody, loop |-> loopBody, fn |-> << >>, joined |-> FALSE]

\* the function of the sketches that define one:
\* void helper() { digitalWrite(2, HIGH); delay(100); digitalWrite(2, LOW); }
HelperBody ==
    << Op("digitalWrite", 2, HIGH, "", TRUE),
       Op("delay", -1, 100, "", TRUE),
       Op("digitalWrite", 2, LOW, "", TRUE) >>

\* sketches that call helper() from loop, from setup, and from a loop that
\* then waits itself
CallNames == {"callLoop", "callSetup", "callThenWait"}

\* sketches by what static validation has to say about them
ValidationNames == {"badMode", "warnWrite", "badRead", "badAnalog", "badSecond",
                    "badFirst", "negDelay", "clean"}

SourceNames == {"blink", "fade", "crash", "noLoop", "unbound"}

\* sketches whose loop is one delay and one println, by the delay they request
WaitMs == [wait0 |-> 0, wait1 |-> 1, wait50 |-> 50, wait51 |-> 51, wait100 |-> 100,
           wait101 |-> 101, wait1999 |-> 1999, wait2000 |-> 2000, wait2001 |-> 2001,
           wait5000 |-> 5000]

WaitNames == DOMAIN WaitMs

\* pin 99 with lit = FALSE: a variable holding a number outside VALID_GPIOS, which
\* passes validation (only literals are checked) and makes the pin operation throw
Src(name) ==
    CASE name = "blink" ->
            Sketch(TRUE, TRUE, TRUE,
                   << Op("pinMode", 2, 0, "OUTPUT", TRUE),
                      Op("delay", -1, 30, "", TRUE) >>,
                   << Op("digitalWrite", 2, HIGH, "", TRUE),
                      Op("delay", -1, 100, "", TRUE),
                      Op("digitalWrite", 2, LOW, "", TRUE) >>)
      [] name = "fade" ->
            Sketch(TRUE, TRUE, TRUE,
                   << Op("println", -1, 0, "", TRUE) >>,
                   << Op("delay", -1, 30, "", TRUE),
                      Op("analogWrite", 99, 512, "", FALSE) >>)
      [] name = "crash" ->
            Sketch(TRUE, TRUE, TRUE,
                   << Op("pinMode", 99, 0, "OUTPUT", FALSE) >>,
                   << Op("println", -1, 0, "", TRUE) >>)
      [] name = "noLoop" ->
            Sketch(TRUE, FALSE, TRUE,
                   << Op("pinMode", 2, 0, "OUTPUT", TRUE) >>,
                   << >>)
      [] name = "callLoop" ->
            [Sketch(TRUE, TRUE, TRUE,
                    << Op("pinMode", 2, 0, "OUTPUT", TRUE) >>,
                    << Call(HelperBody),
                       Op("println", -1, 0, "", TRUE) >>)
                EXCEPT !.fn = HelperBody]
      [] name = "callSetup" ->
            [Sketch(TRUE, TRUE, TRUE,
                    << Op("pinMode", 2, 0, "OUTPUT", TRUE),
                       Call(HelperBody) >>,
                    << Op("println", -1, 0, "", TRUE) >>)
                EXCEPT !.fn = HelperBody]
      [] name = "callThenWait" ->
            [Sketch(TRUE, TRUE, TRUE,
                    << >>,
                    << Call(HelperBody),
                       Op("delay", -1, 120, "", TRUE),
                       Op("println", -1, 0, "", TRUE) >>)
                EXCEPT !.fn = HelperBody]
      [] name = "badMode" ->
            Sketch(TRUE, TRUE, TRUE,
                   << Op("pinMode", 99, 0, "OUTPUT", TRUE) >>,
                   << Op("println", -1, 0, "", TRUE) >>)
      [] name = "warnWrite" ->
            Sketch(TRUE, TRUE, TRUE,
                   << >>,
                   << Op("digitalWrite", 5, HIGH, "", TRUE),
                      Op("delay", -1, 30, "", TRUE) >>)
      [] name = "badRead" ->
            Sketch(TRUE, TRUE, TRUE,
                   << Op("pinMode", 2, 0, "INPUT", TRUE) >>,
                   << Op("digitalRead", 2, 0, "", TRUE),
                      Op("digitalRead", 99, 0, "", TRUE) >>)
      [] name = "badAnalog" ->
            Sketch(TRUE, TRUE, TRUE,
                   << Op("pinMode", 2, 0, "OUTPUT", TRUE) >>,
                   << Op("analogWrite", 99, 512, "", TRUE) >>)
      [] name = "badSecond" ->
            [Sketch(TRUE, TRUE, TRUE,
                    << Op("pinMode", 2, 0, "OUTPUT", TRUE),
                       Op("pinMode", 99, 0, "OUTPUT", TRUE) >>,
                    << Op("println", -1, 0, "", TRUE) >>)
                EXCEPT !.joined = TRUE]
      [] name = "badFirst" ->
            [Sketch(TRUE, TRUE, TRUE,
                    << Op("pinMode", 99, 0, "OUTPUT", TRUE),
                       Op("pinMode", 98, 0, "OUTPUT", TRUE) >>,
                    << Op("println", -1, 0, "", TRUE) >>)
                EXCEPT !.joined = TRUE]
      [] name = "negDelay" ->
            Sketch(TRUE, TRUE, TRUE,
                   << Op("pinMode", 2, 0, "OUTPUT", TRUE) >>,
                   << Op("delay", -1, -5, "", TRUE) >>)
      [] name = "clean" ->
            [Sketch(TRUE, TRUE, TRUE,
                    << Op("pinMode", 2, 0, "OUTPUT", TRUE),
                       Op("pinMode", 16, 0, "OUTPUT", TRUE) >>,
                    << Op("digitalWrite", 2, HIGH, "", TRUE),
                       Op("delay", -1, 30, "", TRUE) >>)
                EXCEPT !.joined = TRUE]
      [] name \in WaitNames ->
            Sketch(TRUE, TRUE, TRUE,
                   << >>,
                   << Op("delay", -1, WaitMs[name], "", TRUE),
                      Op("println", -1, 0, "", TRUE) >>)
      [] name = "unbound" ->
            \* "void setup()" occurs only inside a comment: validation passes,
            \* the factory's "return { __setup, __loop }" fails
            Sketch(TRUE, TRUE, FALSE, << >>, << >>)

\* every statement of the sketch, in text order
Statements(sk) == sk.setup \o sk.loop \o sk.fn

\* code.split("\n"): the lines of the text, each with the calls written on it
Lines(sk) ==
    IF sk.joined
    THEN SelectSeq(<< sk.setup, sk.loop, sk.fn >>, LAMBDA l : l # << >>)
    ELSE [i \in 1..Len(Statements(sk)) |-> << Statements(sk)[i] >>]

\* String.prototype.match with a regex without the g flag: of the positions of
\* a line where the pattern matches, the leftmost; 0 when there is none
FirstMatch(hits) ==
    IF hits = {} THEN 0 ELSE CHOOSE k \in hits : \A j \in hits : k <= j

\* validateCode: the diagnostics, errors and warnings, in the order they are pushed
validateCode(sk) ==
    LET lines == Lines(sk)
        all == Statements(sk)
        configuredPins == {<<all[i].pin, all[i].lit>> :
                              i \in {k \in 1..Len(all) : all[k].op = "pinMode"}}
        \* l. 111: /(?:pinMode|digitalWrite|digitalRead)\s*\(\s*(\d+)\s*[,)]/
        pinNumMatch(line) ==
            FirstMatch({k \in 1..Len(line) :
                           /\ line[k].op \in {"pinMode", "digitalWrite", "digitalRead"}
                           /\ line[k].lit})
        \* l. 124: /delay\s*\(\s*(-\d+)\s*\)/
        delayMatch(line) ==
            FirstMatch({k \in 1..Len(line) :
                           line[k].op = "delay" /\ line[k].lit /\ line[k].val < 0})
        \* l. 98: /digitalWrite\s*\(\s*(\w+)\s*,/
        dwMatch(line) == FirstMatch({k \in 1..Len(line) : line[k].op = "digitalWrite"})
        RECURSIVE LineErrors(_)
        LineErrors(i) ==
            IF i > Len(lines) THEN << >>
            ELSE LET l == lines[i]
                     badPin == IF /\ pinNumMatch(l) # 0
                                  /\ l[pinNumMatch(l)].pin \notin VALID_GPIOS
                               THEN << "GPIO no existe en ESP8266" >> ELSE << >>
                     negDelay == IF delayMatch(l) # 0
                                 THEN << "delay() no acepta valores negativos" >>
                                 ELSE << >>
                 IN  badPin \o negDelay \o LineErrors(i + 1)
        RECURSIVE LineWarnings(_)
        LineWarnings(i) ==
            IF i > Len(lines) THEN << >>
            ELSE LET l == lines[i]
                     w == IF /\ dwMatch(l) # 0
                             /\ <<l[dwMatch(l)].pin, l[dwMatch(l)].lit>> \notin configuredPins
                          THEN << "digitalWrite sin previo pinMode()" >> ELSE << >>
                 IN  w \o LineWarnings(i + 1)
    IN  [errors |-> (IF sk.hasSetup THEN << >> ELSE << "Falta la funcion void setup()" >>)
                    \o (IF sk.hasLoop THEN << >> ELSE << "Falta la funcion void loop()" >>)
                    \o LineErrors(1),
         warnings |-> LineWarnings(1)]

\* compileFunctions: TRUE when the factory returns, FALSE when it throws
compileFunctions(sk) == sk.binds

----------------------------------------------------------------------------
(* Observation record of the most recent step *)

\*   act       the operation or callback that ran
\*   ok        its result (a pin operation did not throw; load returned success)
\*   load      what a load() in this step ended as: "invalid", "compileError", "ok"
\*   outcome   how the setup/loop invocation the step ran or resumed ended the step:
\*             "suspended" in a delay, "wait" (next quantum), "done", "fault", "abort"
\*             (cancellation signal); for start(): "noProgram", "alreadyRunning";
\*             for a loop timer that found the engine stopped: "skip"
\*   body      "setup" or "loop", the body that invocation runs
\*   pin, arg  arguments of a pin operation; arg is the realized delay of a quantum,
\*             and for reset() the iteration counter it discarded
\*   stopSeen  the invocation was suspended when stop()/reset() was called
\*   setupDone a loop invocation began in this step and the setup of its start() had completed
\*   setups, loops   setup / loop invocations begun in this step
\*   armed     loop-scheduling timers armed in this step
\*   thrown    an error left the engine towards the caller or the host
\*   sinceStop only timer callbacks of invocations and of _runLoop have run since
\*             the most recent stop() call
\*   cleared   the invocation resumed in this step was suspended when run() cleared the pins
\*   fresh     a start() in this step went ahead with every pin at its defaults
\*   clean     the engine was constructed or reset and start() has not gone ahead since
\*   win       "open": the engine is in the setup or the first loop iteration of a
\*             start() that went ahead fresh and clean, and only timer callbacks have
\*             run since; "complete": that first iteration completed in this step
\*   trace     the pin events published since that start(), while win is not "closed"
\*   quanta, waited   for a timer of a delay: how many timers of that delay have
\*             fired, this one included, and the milliseconds they were armed for
\*   id        the component id passed to registerComponent / unregisterComponent
\*   prog      the program whose loop a loop timer invoked in this step
\*   started   while the running flag is set: the program whose setup the most
\*             recent start() that went ahead invoked
\*   source    the source a load() of a validation sketch was given
\*   text, output   the text given to parseArduinoCode and the text it returned
NoObs == [act |-> "init", ok |-> TRUE, load |-> "", outcome |-> "", body |-> "", pin |-> Num(-1),
          arg |-> -1, stopSeen |-> FALSE, setupDone |-> FALSE, setups |-> 0,
          loops |-> 0, armed |-> 0, thrown |-> FALSE, sinceStop |-> FALSE,
          cleared |-> FALSE, fresh |-> FALSE, clean |-> TRUE, win |-> "closed", trace |-> << >>,
          quanta |-> 0, waited |-> 0, prog |-> "null", started |-> "null", id |-> "",
          source |-> "", text |-> << >>, output |-> << >>]

----------------------------------------------------------------------------
(* SimulatorEngine: the engine as a record S, and its methods as functions on S *)

\* maximum realized wait of one delay, and the quantum it is served in
MAX_REAL_DELAY == 2000
CHUNK_SIZE == 50
\* _loopDelay: the timeout of the loop-scheduling timer
LOOP_DELAY == 1
\* the pause run() takes after stopping a running engine
RUN_PAUSE == 50

\* A pending setTimeout. kind "loop": the callback armed by _runLoop (id is the
\* handle kept in _loopTimeout). kind "delay": a quantum of _delay, carrying the
\* suspended invocation (which body of which compiled program, and the index of
\* the delay statement it is suspended in). kind "run": the pause of run(); its
\* source argument is drawn when the pause ends (nothing reads it before).
\* stopSeen, setupDone and cleared are observations: a stop() or reset() happened
\* while this invocation was suspended; the setup of the start() this chain
\* belongs to has completed; run() cleared the pins while this invocation was
\* suspended. quanta and waited are observations too: how many timers this
\* delay has had fire so far, and the milliseconds they were armed for.
Timer(kind, ms, id, body, prog, pc, elapsed, realDelay, stopSeen, setupDone) ==
    [kind |-> kind, ms |-> ms, id |-> id, body |-> body, prog |-> prog, pc |-> pc,
     elapsed |-> elapsed, realDelay |-> realDelay, stopSeen |-> stopSeen,
     setupDone |-> setupDone, cleared |-> FALSE, quanta |-> 0, waited |-> 0]

Invocation(body, prog, setupDone) == [body |-> body, prog |-> prog, setupDone |-> setupDone]

Cur ==
    [state |-> state, running |-> running, loopTimeout |-> loopTimeout,
     compiled |-> compiled, loopCount |-> loopCount,
     timers |-> timers, pins |-> pins, evs |-> << >>, ret |-> TRUE, obs |-> NoObs]

OfKind(T, kind) == {i \in 1..Len(T) : T[i].kind = kind}

\* invocations of setup/loop that have started and neither finished nor aborted
LiveInvocations(T) == OfKind(T, "delay")

\* start() chains alive: each holds exactly one pending timer, a delay or a loop timer
NumChains(T) == Cardinality(OfKind(T, "delay") \cup OfKind(T, "loop"))

\* setTimeout returns a handle no pending timer has. (A handle that has fired may be
\* handed out again here: _runLoop stores the new handle in _loopTimeout as it arms
\* the timer, so a stale handle is never compared with a later timer.)
NewTimerId(S) ==
    LET used == {S.timers[i].id : i \in 1..Len(S.timers)} \cup {0}
    IN  CHOOSE n \in 1..(Cardinality(used) + 1) : n \notin used

emit(S, ev) == [S EXCEPT !.evs = Append(@, ev)]

RECURSIVE emitAll(_, _, _)
emitAll(S, type, msgs) ==
    IF msgs = << >> THEN S
    ELSE emitAll(emit(S, SerialLog(type, Head(msgs))), type, Tail(msgs))

setState(S, newState) ==
    emit([S EXCEPT !.state = newState], Ev("engine-state", newState, "", -1, -1, -1))

\* A variant of _handleError that leaves the running flag set; C9_FaultHandled
\* does not hold of an engine built with it.
handleErrorKeepsRunning(S) ==
    emit(setState(S, "error"), SerialLog("error", "Error de ejecucion"))

handleError(S) ==
    emit(setState([S EXCEPT !.running = FALSE], "error"),
         SerialLog("error", "Error de ejecucion"))

\* A variant of the catch clause that reports every error, the cancellation
\* signal included; C10_CancellationSilent does not hold of an engine built with it.
catchBoundaryReportsAll(S, sig) ==
    IF sig = "" THEN S ELSE handleError(S)

\* the catch clause at the setup/loop boundary: sig is the message of the error
catchBoundary(S, sig) ==
    IF sig = "__STOP__" THEN S ELSE handleError(S)

\* A variant of _runLoop that schedules the first iteration only; C36_LoopRepeats
\* does not hold of an engine built with it.
runLoopOnce(S, inv) ==
    IF ~S.running \/ S.loopCount > 0 THEN S
    ELSE LET id == NewTimerId(S)
         IN  [S EXCEPT !.timers = Append(@, Timer("loop", LOOP_DELAY, id, "none", "null",
                                                  0, 0, 0, FALSE, inv.setupDone)),
                       !.loopTimeout = id,
                       !.obs.armed = @ + 1]

runLoop(S, inv) ==
    IF ~S.running THEN S
    ELSE LET id == NewTimerId(S)
         IN  [S EXCEPT !.timers = Append(@, Timer("loop", LOOP_DELAY, id, "none", "null",
                                                  0, 0, 0, FALSE, inv.setupDone)),
                       !.loopTimeout = id,
                       !.obs.armed = @ + 1]

\* A variant of _delay that waits the requested time in full; C34_DelayClamped
\* does not hold of an engine built with it.
delayUnclamped(S, ms, inv, pc) ==
    LET first == IF ms <= CHUNK_SIZE THEN Max(ms, 0) ELSE CHUNK_SIZE
    IN  [S EXCEPT !.timers = Append(@, Timer("delay", first, 0, inv.body, inv.prog, pc,
                                              0, ms, FALSE, inv.setupDone))]

\* _delay(ms) called by invocation inv at statement pc: arms the first timer
delay(S, ms, inv, pc) ==
    LET realDelay == Min(ms, MAX_REAL_DELAY)
        first == IF realDelay <= CHUNK_SIZE THEN Max(realDelay, 0) ELSE CHUNK_SIZE
    IN  [S EXCEPT !.timers = Append(@, Timer("delay", first, 0, inv.body, inv.prog, pc,
                                              0, realDelay, FALSE, inv.setupDone))]

\* Runs the statements of a body from pc until it suspends in a delay, finishes
\* or faults; the pin operations act on P and publish into evs. A call of the
\* sketch's function is translated without await (parser.js l. 173, 176): the
\* function runs up to its first delay, that delay is armed (spawned), and the
\* caller goes on with its next statement; an error thrown in the function
\* rejects the promise nobody holds and does not reach the caller.
RECURSIVE execBody(_, _, _, _)

\* the statement after a pinMode, digitalWrite or analogWrite that returned r:
\* the next one, or none when the operation threw
afterPinOp(body, pc, P, evs, r) ==
    IF r.ok THEN execBody(body, pc + 1, r.pins, evs \o r.evs)
    ELSE [status |-> "fault", pc |-> pc, pins |-> P, evs |-> evs, ms |-> 0,
          spawned |-> << >>]

\* the same after a digitalRead, which leaves the pins as they are
afterRead(body, pc, P, evs, r) ==
    IF r.ok THEN execBody(body, pc + 1, P, evs \o r.evs)
    ELSE [status |-> "fault", pc |-> pc, pins |-> P, evs |-> evs, ms |-> 0,
          spawned |-> << >>]

execBody(body, pc, P, evs) ==
    IF pc > Len(body)
    THEN [status |-> "done", pc |-> pc, pins |-> P, evs |-> evs, ms |-> 0, spawned |-> << >>]
    ELSE LET o == body[pc]
         IN  IF o.op = "delay"
             THEN [status |-> "delay", pc |-> pc, pins |-> P, evs |-> evs, ms |-> o.val,
                   spawned |-> << >>]
             ELSE IF o.op = "println"
             THEN execBody(body, pc + 1, P, Append(evs, SerialLog("info", "println")))
             ELSE IF o.op = "call"
             THEN LET f == execBody(o.body, 1, P, evs)
                      rest == execBody(body, pc + 1, f.pins, f.evs)
                  IN  IF f.status = "delay"
                      THEN [rest EXCEPT !.spawned = << [ms |-> f.ms, pc |-> f.pc] >> \o @]
                      ELSE rest
             ELSE IF o.op = "digitalRead"
             THEN afterRead(body, pc, P, evs, digitalRead(P, Num(o.pin)))
             ELSE afterPinOp(body, pc, P, evs,
                             CASE o.op = "pinMode" -> pinMode(P, Num(o.pin), o.mode)
                               [] o.op = "digitalWrite" ->
                                      digitalWrite(P, components, Num(o.pin), o.val)
                               [] o.op = "analogWrite" ->
                                      analogWrite(P, components, Num(o.pin), o.val))

\* a body run from statement pc to its end or its first fault, every delay served
RECURSIVE runToEnd(_, _, _, _)
runToEnd(body, pc, P, evs) ==
    LET r == execBody(body, pc, P, evs)
    IN  IF r.status = "delay" THEN runToEnd(body, r.pc + 1, r.pins, r.evs) ELSE r

\* the events setup and one loop iteration of a sketch publish when nothing else
\* touches the pins, starting from the default pins
firstIteration(name) ==
    LET a == runToEnd(Src(name).setup, 1, initializePins, << >>)
    IN  IF a.status = "fault" THEN a.evs
        ELSE runToEnd(Src(name).loop, 1, a.pins, a.evs).evs

BodyOf(inv) ==
    CASE inv.body = "setup" -> Src(inv.prog).setup
      [] inv.body = "loop" -> Src(inv.prog).loop
      [] inv.body = "fn" -> Src(inv.prog).fn

\* arms the delays the functions called in this step suspended in
RECURSIVE armSpawned(_, _, _)
armSpawned(S, spawned, inv) ==
    IF spawned = << >> THEN S
    ELSE armSpawned(delay(S, Head(spawned).ms, [inv EXCEPT !.body = "fn"], Head(spawned).pc),
                    Tail(spawned), inv)

\* What the caller of invocation inv does when the body has run to the result r:
\* start() after setup (l. 286-303), the timer callback after loop (l. 383-393).
\* Nothing awaits the invocation of a called function (body "fn"): its end and
\* its errors have no effect on the engine.
afterBody(S, inv, r) ==
    LET S1 == armSpawned([S EXCEPT !.pins = r.pins, !.evs = r.evs, !.obs.body = inv.body],
                         r.spawned, inv)
    IN  CASE r.status = "delay" ->
                delay([S1 EXCEPT !.obs.outcome = "suspended"], r.ms, inv, r.pc)
          [] r.status = "fault" /\ inv.body = "fn" ->
                [S1 EXCEPT !.obs.outcome = "fault"]
          [] r.status = "fault" /\ inv.body # "fn" ->
                catchBoundary([S1 EXCEPT !.obs.outcome = "fault"], "Error")
          [] r.status = "done" /\ inv.body = "fn" ->
                [S1 EXCEPT !.obs.outcome = "done"]
          [] r.status = "done" /\ inv.body = "setup" ->
                runLoop(emit([S1 EXCEPT !.obs.outcome = "done"],
                             SerialLog("info", "setup() completado")),
                        [inv EXCEPT !.setupDone = TRUE])
          [] r.status = "done" /\ inv.body = "loop" ->
                runLoop([S1 EXCEPT !.obs.outcome = "done", !.loopCount = @ + 1], inv)

\* runs invocation inv from statement pc, and then its caller
continueInvocation(S, inv, pc) ==
    afterBody(S, inv, execBody(BodyOf(inv), pc, S.pins, S.evs))

load(S, name) ==
    LET S0 == S
        validation == validateCode(Src(name))
    IN  IF Len(validation.errors) > 0
        THEN [emitAll(S0, "error", validation.errors) EXCEPT !.ret = FALSE,
                                                              !.obs.load = "invalid"]
        ELSE LET S1 == emitAll(S0, "warn", validation.warnings)
             IN  IF compileFunctions(Src(name))
                 THEN [emit([S1 EXCEPT !.compiled = name],
                            SerialLog("info", "Compilacion exitosa"))
                          EXCEPT !.ret = TRUE, !.obs.load = "ok"]
                 ELSE [setState(emit(S1, SerialLog("error", "Error de compilacion")), "error")
                          EXCEPT !.ret = FALSE, !.obs.load = "compileError"]

\* A variant of start() without the already-running guard; C11_StartGuards does
\* not hold of an engine built with it.
startUnguarded(S) ==
    IF S.compiled = "null"
    THEN [emit(S, SerialLog("error", "No hay codigo compilado")) EXCEPT !.obs.outcome = "noProgram"]
    ELSE LET S1 == setState([S EXCEPT !.running = TRUE, !.loopCount = 0], "running")
             S2 == emit(S1, SerialLog("info", "Iniciando simulacion"))
         IN  continueInvocation([S2 EXCEPT !.obs.setups = @ + 1],
                                Invocation("setup", S.compiled, FALSE), 1)

start(S) ==
    IF S.compiled = "null"
    THEN [emit(S, SerialLog("error", "No hay codigo compilado")) EXCEPT !.obs.outcome = "noProgram"]
    ELSE IF S.state = "running"
    THEN [emit(S, SerialLog("warn", "ya esta en ejecucion")) EXCEPT !.obs.outcome = "alreadyRunning"]
    ELSE LET S1 == setState([S EXCEPT !.running = TRUE, !.loopCount = 0], "running")
             S2 == emit(S1, SerialLog("info", "Iniciando simulacion"))
         IN  continueInvocation([S2 EXCEPT !.obs.setups = @ + 1,
                                           !.obs.fresh = (S.pins = initializePins)],
                                Invocation("setup", S.compiled, FALSE), 1)

\* clearTimeout(id): the pending timer with that handle, if any, is dropped
clearTimeout(T, id) == SelectSeq(T, LAMBDA t : ~(t.kind = "loop" /\ t.id = id))

\* A variant of stop() that returns at once when the running flag is clear;
\* C12_StopIdempotent does not hold of an engine built with it.
stopOnlyWhenRunning(S) ==
    IF ~S.running THEN S
    ELSE LET S1 == [S EXCEPT !.running = FALSE,
                             !.timers = IF S.loopTimeout # 0 THEN clearTimeout(@, S.loopTimeout)
                                        ELSE @,
                             !.loopTimeout = 0]
         IN  emit(setState(S1, "stopped"), SerialLog("info", "Simulacion detenida"))

stop(S) ==
    LET S1 == [S EXCEPT !.running = FALSE,
                        !.timers = IF S.loopTimeout # 0 THEN clearTimeout(@, S.loopTimeout) ELSE @,
                        !.loopTimeout = 0]
        \* observation: every suspended invocation has now seen a stop
        S2 == [S1 EXCEPT !.timers = [i \in 1..Len(S1.timers) |->
                            IF S1.timers[i].kind = "delay"
                            THEN [S1.timers[i] EXCEPT !.stopSeen = TRUE]
                            ELSE S1.timers[i]]]
    IN  emit(setState(S2, "stopped"), SerialLog("info", "Simulacion detenida"))

reset(S) ==
    LET S1 == stop(S)
        g  == gpioReset(S1.pins)
        S2 == [S1 EXCEPT !.pins = g.pins, !.evs = @ \o g.evs, !.compiled = "null",
                         !.loopCount = 0]
    IN  emit(emit(setState([S2 EXCEPT !.obs.arg = S.loopCount], "idle"),
                  SerialLog("info", "Simulador reseteado")),
             Ev("engine-reset", "", "", -1, -1, -1))

\* run() from "gpioManager.reset()" on (l. 363-368)
runRest(S, name) ==
    LET g  == gpioReset(S.pins)
        \* observation: every suspended invocation was in flight at this clear
        T  == [i \in 1..Len(S.timers) |->
                  IF S.timers[i].kind = "delay"
                  THEN [S.timers[i] EXCEPT !.cleared = TRUE]
                  ELSE S.timers[i]]
        S1 == load([S EXCEPT !.pins = g.pins, !.evs = @ \o g.evs, !.timers = T], name)
    IN  IF S1.ret THEN start(S1) ELSE S1

\* run() up to the end of its first macro-task: the whole of it when the engine
\* is not running, else stop() and the pause timer
run(S, name) ==
    IF S.state = "running"
    THEN LET S1 == stop(S)
         IN  [S1 EXCEPT !.timers = Append(@, Timer("run", RUN_PAUSE, 0, "none", "null", 0, 0, 0,
                                                   FALSE, FALSE))]
    ELSE runRest(S, name)

\* the loop-timer callback (l. 380-394)
loopCallback(S, t) ==
    IF ~S.running THEN [S EXCEPT !.obs.outcome = "skip"]
    ELSE IF S.compiled = "null"
    THEN catchBoundary([S EXCEPT !.obs.outcome = "fault", !.obs.loops = @ + 1], "TypeError")
    ELSE continueInvocation([S EXCEPT !.obs.loops = @ + 1, !.obs.setupDone = t.setupDone,
                                      !.obs.prog = S.compiled],
                            Invocation("loop", S.compiled, t.setupDone), 1)

\* A variant of the quantum boundary that does not look at the running flag;
\* C4_StopAbortsWithinQuantum does not hold of an engine built with it.
delayCallbackUnchecked(S, t) ==
    LET inv == Invocation(t.body, t.prog, t.setupDone)
        S0  == [S EXCEPT !.obs.body = t.body, !.obs.stopSeen = t.stopSeen,
                         !.obs.arg = t.realDelay]
    IN  IF t.realDelay <= CHUNK_SIZE \/ t.elapsed + CHUNK_SIZE >= t.realDelay
        THEN continueInvocation(S0, inv, t.pc + 1)
        ELSE [S0 EXCEPT !.obs.outcome = "wait",
                        !.timers = Append(@, [t EXCEPT !.ms = CHUNK_SIZE,
                                                       !.elapsed = @ + CHUNK_SIZE])]

\* one quantum boundary of _delay (l. 460-483) for the invocation suspended in t
delayCallback(S, t) ==
    LET inv == Invocation(t.body, t.prog, t.setupDone)
        S0  == [S EXCEPT !.obs.body = t.body, !.obs.stopSeen = t.stopSeen,
                         !.obs.arg = t.realDelay, !.obs.cleared = t.cleared,
                         !.obs.quanta = t.quanta + 1, !.obs.waited = t.waited + t.ms]
    IN  IF ~S.running
        THEN catchBoundary([S0 EXCEPT !.obs.outcome = "abort"], "__STOP__")
        ELSE IF t.realDelay <= CHUNK_SIZE \/ t.elapsed + CHUNK_SIZE >= t.realDelay
        THEN continueInvocation(S0, inv, t.pc + 1)
        ELSE [S0 EXCEPT !.obs.outcome = "wait",
                        !.timers = Append(@, [t EXCEPT !.ms = CHUNK_SIZE,
                                                       !.elapsed = @ + CHUNK_SIZE,
                                                       !.quanta = @ + 1,
                                                       !.waited = @ + t.ms])]

----------------------------------------------------------------------------
(* EventBus *)

\* the history capacity
MAX_HISTORY == 500

Topics == {"pin-change", "serial-log"}

\* The callbacks clients subscribe, by what they do when invoked:
\*   "plain"  returns
\*   "boom"   throws
\*   "cut"    calls off(topic, plain) for the topic being dispatched, then returns
\*   "once"   the wrapper once() builds: off(topic, itself), then its callback
\*            (a plain one) runs
Handlers == {"plain", "boom", "cut", "once"}

SeqRange(q) == {q[i] : i \in 1..Len(q)}

\* position of h in q (0: absent)
IndexOf(q, h) ==
    IF h \in SeqRange(q) THEN CHOOSE i \in 1..Len(q) : q[i] = h ELSE 0

\* a Set keeps one entry per callback, in insertion order
on(L, topic, callback) ==
    IF callback \in SeqRange(L[topic]) THEN L
    ELSE [L EXCEPT ![topic] = Append(@, callback)]

\* an emptied Set is dropped from the Map: topic reads as << >> either way
off(L, topic, callback) ==
    IF callback \in SeqRange(L[topic])
    THEN [L EXCEPT ![topic] = RemoveAt(@, IndexOf(@, callback))]
    ELSE L

once(L, topic) == on(L, topic, "once")

\* A variant that removes the newest entry when over capacity;
\* C19_HistoryBounded does not hold of a bus built with it.
pushHistoryDropsNewest(H, entry) ==
    LET H1 == Append(H, entry)
    IN  IF Len(H1) > MAX_HISTORY THEN SubSeq(H1, 1, Len(H1) - 1) ELSE H1

\* _history.push, then shift when over capacity
pushHistory(H, entry) ==
    LET H1 == Append(H, entry)
    IN  IF Len(H1) > MAX_HISTORY THEN Tail(H1) ELSE H1

RECURSIVE dispatchFirstOnly(_, _, _, _)
\* A variant of the delivery pass that ends after the first handler;
\* C17_FanOutInOrder does not hold of a bus built with it.
dispatchFirstOnly(q, i, invoked, caught) ==
    IF i > Len(q) \/ i > 1
    THEN [q |-> q, invoked |-> invoked, caught |-> caught, returned |-> TRUE]
    ELSE dispatchFirstOnly(IF q[i] = "once" THEN RemoveAt(q, i) ELSE q, 2,
                           Append(invoked, q[i]), caught)

RECURSIVE dispatchNoCatch(_, _, _, _)
\* A variant of the delivery pass without the try/catch around the callback;
\* C18_HandlerErrorCaught does not hold of a bus built with it.
dispatchNoCatch(q, i, invoked, caught) ==
    IF i > Len(q)
    THEN [q |-> q, invoked |-> invoked, caught |-> caught, returned |-> TRUE]
    ELSE LET h == q[i]
             p == IndexOf(q, "plain")
         IN  CASE h = "plain" -> dispatchNoCatch(q, i + 1, Append(invoked, h), caught)
               [] h = "boom"  -> [q |-> q, invoked |-> Append(invoked, h),
                                  caught |-> caught, returned |-> FALSE]
               [] h = "once"  -> dispatchNoCatch(RemoveAt(q, i), i, Append(invoked, h), caught)
               [] h = "cut"   ->
                     IF p = 0 THEN dispatchNoCatch(q, i + 1, Append(invoked, h), caught)
                     ELSE dispatchNoCatch(RemoveAt(q, p), IF p < i THEN i ELSE i + 1,
                                          Append(invoked, h), caught)

\* listeners.forEach over the live Set q of the topic, from position i on: an
\* entry deleted before its turn is not visited; what a handler throws is
\* caught and the pass goes on.
RECURSIVE dispatch(_, _, _, _)
dispatch(q, i, invoked, caught) ==
    IF i > Len(q)
    THEN [q |-> q, invoked |-> invoked, caught |-> caught, returned |-> TRUE]
    ELSE LET h == q[i]
             p == IndexOf(q, "plain")
         IN  CASE h = "plain" -> dispatch(q, i + 1, Append(invoked, h), caught)
               [] h = "boom"  -> dispatch(q, i + 1, Append(invoked, h), caught + 1)
               [] h = "once"  -> dispatch(RemoveAt(q, i), i, Append(invoked, h), caught)
               [] h = "cut"   ->
                     IF p = 0 THEN dispatch(q, i + 1, Append(invoked, h), caught)
                     ELSE dispatch(RemoveAt(q, p), IF p < i THEN i ELSE i + 1,
                                   Append(invoked, h), caught)

\* Observation record of the most recent bus operation:
\*   act       "on", "once", "off", "emit"
\*   topic     its topic
\*   before    the handlers subscribed to the topic when emit began, in order
\*   invoked   the handlers emit invoked, in order
\*   caught    how many of them threw
\*   returned  emit returned normally to its caller
\*   count     events published since the bus was constructed
\*   since     events published since Init
\*   received  the deliveries of the emit, in order: which handler got which event
NoBusObs == [act |-> "init", topic |-> "", before |-> << >>, invoked |-> << >>,
             caught |-> 0, returned |-> TRUE, count |-> 0, since |-> 0, received |-> << >>]

NumListeners(L) ==
    LET RECURSIVE Sum(_)
        Sum(T) == IF T = {} THEN 0
                  ELSE LET t == CHOOSE x \in T : TRUE IN Len(L[t]) + Sum(T \ {t})
    IN  Sum(Topics)

BusInit ==
    /\ listeners = [t \in Topics |-> << >>]
    /\ history = << >>
    /\ busLast = NoBusObs

BusOpDone(act, topic, L) ==
    /\ listeners' = L
    /\ busLast' = [NoBusObs EXCEPT !.act = act, !.topic = topic,
                                   !.count = busLast.count, !.since = busLast.since]
    /\ UNCHANGED history
    /\ UNCHANGED <<engineVars, pins, components, emitted, last>>

BusOn ==
    \E t \in Topics, h \in Handlers \ {"once"} :
        /\ NumListeners(listeners) < MaxListeners
        /\ BusOpDone("on", t, on(listeners, t, h))

\* once() builds a new wrapper at each call; the model holds one wrapper per topic
BusOnce ==
    \E t \in Topics :
        /\ NumListeners(listeners) < MaxListeners
        /\ "once" \notin SeqRange(listeners[t])
        /\ BusOpDone("once", t, once(listeners, t))

BusOff ==
    \E t \in Topics, h \in Handlers \ {"once"} :
        /\ TRUE
        /\ BusOpDone("off", t, off(listeners, t, h))

\* emit(event, data): data is the ordinal of the publish
BusEmit ==
    \E t \in Topics :
        LET d == dispatch(listeners[t], 1, << >>, 0)
        IN  /\ busLast.since < MaxPublishes
            /\ history' = pushHistory(history, [event |-> t, data |-> busLast.count + 1])
            /\ listeners' = [listeners EXCEPT ![t] = d.q]
            /\ busLast' = [act |-> "emit", topic |-> t, before |-> listeners[t],
                           invoked |-> d.invoked, caught |-> d.caught,
                           returned |-> d.returned, count |-> busLast.count + 1,
                           since |-> busLast.since + 1, received |-> << >>]
            /\ UNCHANGED <<engineVars, pins, components, emitted, last>>

getHistory(H, eventFilter) ==
    IF eventFilter # "" THEN SelectSeq(H, LAMBDA e : e.event = eventFilter) ELSE H

BusNext ==
    \/ BusOn
    \/ BusOnce
    \/ BusOff
    \/ BusEmit

\* Handlers that publish while they are being called:
\*   "plain", "tap"  return
\*   "relay"         on receiving the event its client published, calls emit on
\*                   the same topic with a follow-up event, then returns
RelayHandlers == {"plain", "tap", "relay"}

\* emit(t, n) with handlers that may call emit themselves. acc carries the
\* history, the deliveries made so far and the ordinal of the next event; root
\* is the event of the outermost emit. The nested emit runs to its end inside
\* the callback, before forEach moves to the next listener.
\* l. 82-86: the event enters the history before any listener is called
recordEvent(t, n, acc) ==
    [acc EXCEPT !.H = pushHistory(@, [event |-> t, data |-> n]), !.next = n + 1]

\* l. 88-97: listeners.forEach from listener i on, for event n
RECURSIVE passReentrant(_, _, _, _, _, _)
passReentrant(t, q, i, n, root, acc) ==
    IF i > Len(q) THEN acc
    ELSE LET a1 == [acc EXCEPT !.log = Append(@, [h |-> q[i], data |-> n])]
             a2 == IF q[i] = "relay" /\ n = root
                   THEN passReentrant(t, q, 1, a1.next, root, recordEvent(t, a1.next, a1))
                   ELSE a1
         IN  passReentrant(t, q, i + 1, n, root, a2)

emitReentrant(t, q, n, root, acc) ==
    passReentrant(t, q, 1, n, root, recordEvent(t, n, acc))

RelayOn ==
    \E t \in Topics, h \in RelayHandlers :
        /\ NumListeners(listeners) < MaxListeners
        /\ BusOpDone("on", t, on(listeners, t, h))

RelayOff ==
    \E t \in Topics, h \in RelayHandlers :
        BusOpDone("off", t, off(listeners, t, h))

RelayEmit ==
    \E t \in Topics :
        LET r == emitReentrant(t, listeners[t], busLast.count + 1, busLast.count + 1,
                               [H |-> history, log |-> << >>, next |-> busLast.count + 1])
        IN  /\ busLast.since < MaxPublishes
            /\ history' = r.H
            /\ UNCHANGED listeners
            /\ busLast' = [NoBusObs EXCEPT !.act = "emit", !.topic = t,
                                           !.before = listeners[t],
                                           !.count = r.next - 1,
                                           !.since = busLast.since + 1,
                                           !.received = r.log]
            /\ UNCHANGED <<engineVars, pins, components, emitted, last>>

RelayNext ==
    \/ RelayOn
    \/ RelayOff
    \/ RelayEmit

----------------------------------------------------------------------------
(* Pin specification: any sequence of pin operations on the GPIOManager *)

\* pin identifiers offered to the operations: two valid ids and an id no pin has
ModelPins == {Num(2), Num(16), Num(99)}
ModelModes == {"INPUT", "OUTPUT", "INPUT_PULLUP", "BOGUS"}
ModelDuties == {-5, 0, 512, 2000}
ModelCompIds == {"led"}
\* duties of the valid range 0..1023 a write-then-read is tried with in every state
DutySamples == {0, 1, 512, PWM_MAX - 1, PWM_MAX}

NumComponents(C) ==
    LET RECURSIVE Sum(_)
        Sum(i) == IF i = 0 THEN 0 ELSE Len(C[i].comps) + Sum(i - 1)
    IN  Sum(Len(C))

EngineInit ==
    /\ state = "idle"
    /\ running = FALSE
    /\ loopTimeout = 0
    /\ compiled = "null"
    /\ loopCount = 0
    /\ timers = << >>

GpioInit ==
    /\ pins = initializePins
    /\ components = << >>
    /\ emitted = << >>
    /\ last = NoObs

Init == EngineInit /\ GpioInit /\ BusInit

PinOpDone(act, gpio, arg, r) ==
    /\ pins' = r.pins
    /\ emitted' = r.evs
    /\ last' = [NoObs EXCEPT !.act = act, !.ok = r.ok, !.pin = gpio, !.arg = arg]
    /\ UNCHANGED components
    /\ UNCHANGED engineVars
    /\ UNCHANGED busVars

GpioPinMode ==
    \E g \in ModelPins, m \in ModelModes :
        PinOpDone("pinMode", g, -1, pinMode(pins, g, m))

GpioDigitalWrite ==
    \E g \in ModelPins, v \in {LOW, HIGH} :
        PinOpDone("digitalWrite", g, v, digitalWrite(pins, components, g, v))

GpioAnalogWrite ==
    \E g \in ModelPins, d \in ModelDuties :
        PinOpDone("analogWrite", g, d, analogWrite(pins, components, g, d))

GpioSetExternalValue ==
    \E g \in ModelPins, v \in {LOW, HIGH} :
        PinOpDone("setExternalValue", g, v, setExternalValue(pins, g, v))

GpioReset ==
    PinOpDone("gpioReset", -1, -1, gpioReset(pins))

GpioRegisterComponent ==
    \E g \in ModelPins, id \in ModelCompIds :
        LET r == registerComponent(components, g, id, "LED")
        IN  /\ NumComponents(components) < MaxComponents
            /\ components' = r.comps
            /\ emitted' = r.evs
            /\ last' = [NoObs EXCEPT !.act = "registerComponent", !.ok = r.ok, !.pin = g]
            /\ UNCHANGED pins
            /\ UNCHANGED engineVars
            /\ UNCHANGED busVars

GpioUnregisterComponent ==
    \E id \in ModelCompIds :
        LET r == unregisterComponent(components, id)
        IN  /\ components' = r.comps
            /\ emitted' = r.evs
            /\ last' = [NoObs EXCEPT !.act = "unregisterComponent", !.ok = r.ok]
            /\ UNCHANGED pins
            /\ UNCHANGED engineVars
            /\ UNCHANGED busVars

GpioNext ==
    \/ GpioPinMode
    \/ GpioDigitalWrite
    \/ GpioAnalogWrite
    \/ GpioSetExternalValue
    \/ GpioReset
    \/ GpioRegisterComponent
    \/ GpioUnregisterComponent

SpecGpio == Init /\ [][GpioNext]_vars

----------------------------------------------------------------------------
(* Identifier specification: the pin operations called with every form of pin *)
(* identifier a caller can write                                              *)

\* identifiers of pin 2: its id, its board alias in either case, the built-in
\* LED name, a numeric string
Pin2Ids == {Num(2), Str(<< "D", "4" >>), Str(<< "d", "4" >>), Str(LED_BUILTIN),
            Str(<< "2" >>)}

\* identifiers of no pin: a number and a numeric string outside VALID_GPIOS, an
\* alias the board does not have, a word, the empty string
InvalidIds == {Num(99), Str(<< "9", "9" >>), Str(<< "D", "9" >>),
               Str(<< "p", "i", "n" >>), Str(<< >>)}

ModelIds == Pin2Ids \cup InvalidIds

IdModes == {"OUTPUT", "INPUT_PULLUP"}

IdPinMode ==
    \E id \in ModelIds, m \in IdModes :
        PinOpDone("pinMode", id, -1, pinMode(pins, id, m))

IdDigitalWrite ==
    \E id \in ModelIds :
        PinOpDone("digitalWrite", id, HIGH, digitalWrite(pins, components, id, HIGH))

IdDigitalRead ==
    \E id \in ModelIds :
        LET r == digitalRead(pins, id)
        IN  PinOpDone("digitalRead", id, r.value, [ok |-> r.ok, pins |-> pins, evs |-> r.evs])

IdAnalogWrite ==
    \E id \in ModelIds :
        PinOpDone("analogWrite", id, 512, analogWrite(pins, components, id, 512))

IdSetExternalValue ==
    \E id \in ModelIds, v \in {LOW, HIGH} :
        PinOpDone("setExternalValue", id, v, setExternalValue(pins, id, v))

IdRegisterComponent ==
    \E id \in ModelIds :
        LET r == registerComponent(components, id, "led", "LED")
        IN  /\ NumComponents(components) < MaxComponents
            /\ components' = r.comps
            /\ emitted' = r.evs
            /\ last' = [NoObs EXCEPT !.act = "registerComponent", !.ok = r.ok, !.pin = id]
            /\ UNCHANGED pins
            /\ UNCHANGED engineVars
            /\ UNCHANGED busVars

PinIdNext ==
    \/ IdPinMode
    \/ IdDigitalWrite
    \/ IdDigitalRead
    \/ IdAnalogWrite
    \/ IdSetExternalValue
    \/ IdRegisterComponent

SpecPinId == Init /\ [][PinIdNext]_vars

----------------------------------------------------------------------------
(* Registry specification: components attached and detached, with explicit   *)
(* ids that may repeat                                                         *)

RegistryPins == {2, 16}
RegistryIds == {"led", "btn"}

RegistryRegister ==
    \E g \in RegistryPins, id \in RegistryIds :
        LET r == registerComponent(components, Num(g), id, "LED")
        IN  /\ NumComponents(components) < MaxRegistered
            /\ components' = r.comps
            /\ emitted' = r.evs
            /\ last' = [NoObs EXCEPT !.act = "registerComponent", !.ok = r.ok,
                                     !.pin = Num(g), !.id = id]
            /\ UNCHANGED pins
            /\ UNCHANGED engineVars
            /\ UNCHANGED busVars

RegistryUnregister ==
    \E id \in RegistryIds :
        LET r == unregisterComponent(components, id)
        IN  /\ components' = r.comps
            /\ emitted' = r.evs
            /\ last' = [NoObs EXCEPT !.act = "unregisterComponent", !.ok = r.ok, !.id = id]
            /\ UNCHANGED pins
            /\ UNCHANGED engineVars
            /\ UNCHANGED busVars

RegistryNext ==
    \/ RegistryRegister
    \/ RegistryUnregister

SpecRegistry == Init /\ [][RegistryNext]_vars

----------------------------------------------------------------------------
(* Bus specifications: any sequence of bus operations on the EventBus *)

SpecBus == Init /\ [][BusNext]_vars

\* the bus with handlers that publish from inside a callback
SpecRelay == Init /\ [][RelayNext]_vars

\* the history after n publishes on the console topic
historyAfter(n) == [i \in 1..n |-> [event |-> "serial-log", data |-> i]]

\* numbers of earlier publishes the history specification starts from
EarlierPublishes == {0, MAX_HISTORY - 2, MAX_HISTORY - 1, MAX_HISTORY}

\* a bus that has already published n events, for n around the capacity
InitHistory ==
    /\ EngineInit
    /\ GpioInit
    /\ listeners = [t \in Topics |-> << >>]
    /\ \E n \in EarlierPublishes :
          /\ history = historyAfter(n)
          /\ busLast = [NoBusObs EXCEPT !.count = n]

HistoryNext ==
    \/ BusOnce
    \/ BusEmit

SpecHistory == InitHistory /\ [][HistoryNext]_vars

----------------------------------------------------------------------------
(* Engine specification: API calls and timer callbacks in any interleaving *)

\* The host runs timer i only after every timer armed before it whose timeout is
\* not larger (the ordering setTimeout guarantees).
CanFire(T, i) == \A j \in 1..(i - 1) : T[j].ms > T[i].ms

WithinBounds(S) ==
    /\ NumChains(S.timers) <= MaxChains
    /\ Cardinality(OfKind(S.timers, "run")) <= MaxRunPauses
    /\ S.loopCount <= MaxLoopCount

\* the pin-state transitions among the events of a step
PinEvents(evs) == SelectSeq(evs, LAMBDA e : e.topic \in {"pin-change", "pwm-change"})

\* the observation window of a fresh, clean start() after a step
Window(S, act) ==
    CASE S.obs.setups > 0 ->
            IF S.obs.fresh /\ last.clean /\ S.running THEN "open" ELSE "closed"
      [] S.obs.setups = 0 /\ act \in {"loopTimer", "delayTimer"} /\ last.win = "open" ->
            IF ~S.running THEN "closed"
            ELSE IF S.loopCount > 0 THEN "complete" ELSE "open"
      [] OTHER -> "closed"

Commit(S, act) ==
    /\ state' = S.state
    /\ running' = S.running
    /\ loopTimeout' = S.loopTimeout
    /\ compiled' = S.compiled
    /\ loopCount' = S.loopCount
    /\ timers' = S.timers
    /\ pins' = S.pins
    /\ emitted' = S.evs
    /\ last' = [S.obs EXCEPT !.act = act, !.ok = S.ret,
                             !.sinceStop = CASE act = "stop" -> TRUE
                                             [] act \in {"loopTimer", "delayTimer"} ->
                                                    last.sinceStop
                                             [] OTHER -> FALSE,
                             !.clean = CASE act = "reset" -> TRUE
                                         [] S.obs.setups > 0 -> FALSE
                                         [] OTHER -> last.clean,
                             !.started = IF S.obs.setups > 0 THEN S.compiled
                                         ELSE IF S.running THEN last.started
                                         ELSE "null",
                             !.win = Window(S, act),
                             !.trace = IF Window(S, act) = "closed" THEN << >>
                                       ELSE IF S.obs.setups > 0 THEN PinEvents(S.evs)
                                       ELSE last.trace \o PinEvents(S.evs)]
    /\ UNCHANGED components
    /\ UNCHANGED busVars

Load ==
    \E name \in SourceNames :
        /\ WithinBounds(load(Cur, name))
        /\ Commit(load(Cur, name), "load")

Start ==
    /\ WithinBounds(start(Cur))
    /\ Commit(start(Cur), "start")

Stop ==
    /\ WithinBounds(stop(Cur))
    /\ Commit(stop(Cur), "stop")

Reset ==
    /\ WithinBounds(reset(Cur))
    /\ Commit(reset(Cur), "reset")

Run ==
    \E name \in SourceNames :
        /\ WithinBounds(run(Cur, name))
        /\ Commit(run(Cur, name), "run")

FireLoopTimer ==
    \E i \in OfKind(timers, "loop") :
        LET S == loopCallback([Cur EXCEPT !.timers = RemoveAt(@, i)], timers[i])
        IN  /\ CanFire(timers, i)
            /\ WithinBounds(S)
            /\ Commit(S, "loopTimer")

FireDelayTimer ==
    \E i \in OfKind(timers, "delay") :
        LET S == delayCallback([Cur EXCEPT !.timers = RemoveAt(@, i)], timers[i])
        IN  /\ CanFire(timers, i)
            /\ WithinBounds(S)
            /\ Commit(S, "delayTimer")

\* the rest of run() after its pause
FireRunTimer ==
    \E i \in OfKind(timers, "run"), name \in SourceNames :
        LET S == runRest([Cur EXCEPT !.timers = RemoveAt(@, i)], name)
        IN  /\ CanFire(timers, i)
            /\ WithinBounds(S)
            /\ Commit(S, "runTimer")

Next ==
    \/ Load
    \/ Start
    \/ Stop
    \/ Reset
    \/ Run
    \/ FireLoopTimer
    \/ FireDelayTimer
    \/ FireRunTimer

Spec == Init /\ [][Next]_vars

\* The engine with a component attached: a client has called
\* registerComponent({id: "led", type: "LED", pin: 2}) before any sketch runs.
InitAttached ==
    /\ EngineInit
    /\ pins = initializePins
    /\ components = registerComponent(<< >>, Num(2), "led", "LED").comps
    /\ emitted = << >>
    /\ last = NoObs
    /\ BusInit

SpecAttached == InitAttached /\ [][Next]_vars

\* The engine after a successful load() of a sketch whose loop requests one delay,
\* then started, stopped and served by the host's timers.
InitDelay ==
    /\ state = "idle"
    /\ running = FALSE
    /\ loopTimeout = 0
    /\ compiled \in WaitNames
    /\ loopCount = 0
    /\ timers = << >>
    /\ GpioInit
    /\ BusInit

DelayNext ==
    \/ Start
    \/ Stop
    \/ FireLoopTimer
    \/ FireDelayTimer

SpecDelay == InitDelay /\ [][DelayNext]_vars

\* The engine after a successful load() of a sketch that calls its own void
\* function, then started, stopped and served by the host's timers.
InitCall ==
    /\ state = "idle"
    /\ running = FALSE
    /\ loopTimeout = 0
    /\ compiled \in CallNames
    /\ loopCount = 0
    /\ timers = << >>
    /\ GpioInit
    /\ BusInit

SpecCall == InitCall /\ [][DelayNext]_vars

----------------------------------------------------------------------------
(* The transpiler's constant substitution, on texts as character sequences *)

\* Object.entries(ARDUINO_CONSTANTS), in insertion order, with String(value)
ARDUINO_CONSTANTS ==
    << [key |-> << "H", "I", "G", "H" >>,
        value |-> << "1" >>],
       [key |-> << "L", "O", "W" >>,
        value |-> << "0" >>],
       [key |-> << "O", "U", "T", "P", "U", "T" >>,
        value |-> << "\"", "O", "U", "T", "P", "U", "T", "\"" >>],
       [key |-> << "I", "N", "P", "U", "T" >>,
        value |-> << "\"", "I", "N", "P", "U", "T", "\"" >>],
       [key |-> << "I", "N", "P", "U", "T", "_", "P", "U", "L", "L", "U", "P" >>,
        value |-> << "\"", "I", "N", "P", "U", "T", "_", "P", "U", "L", "L", "U", "P", "\"" >>],
       [key |-> << "L", "E", "D", "_", "B", "U", "I", "L", "T", "I", "N" >>,
        value |-> << "2" >>],
       [key |-> << "t", "r", "u", "e" >>,
        value |-> << "t", "r", "u", "e" >>],
       [key |-> << "f", "a", "l", "s", "e" >>,
        value |-> << "f", "a", "l", "s", "e" >>],
       [key |-> << "D", "0" >>,
        value |-> << "1", "6" >>],
       [key |-> << "D", "1" >>,
        value |-> << "5" >>],
       [key |-> << "D", "2" >>,
        value |-> << "4" >>],
       [key |-> << "D", "3" >>,
        value |-> << "0" >>],
       [key |-> << "D", "4" >>,
        value |-> << "2" >>],
       [key |-> << "D", "5" >>,
        value |-> << "1", "4" >>],
       [key |-> << "D", "6" >>,
        value |-> << "1", "2" >>],
       [key |-> << "D", "7" >>,
        value |-> << "1", "3" >>],
       [key |-> << "D", "8" >>,
        value |-> << "1", "5" >>],
       [key |-> << "A", "0" >>,
        value |-> << "1", "7" >>] >>

\* \w of a regular expression
IsWordChar(c) ==
    c \in SeqRange(LowerCase) \cup SeqRange(UpperCase) \cup SeqRange(Digits) \cup {"_"}

\* /\bKEY\b/ matches at position i of text
MatchesAt(text, i, key) ==
    /\ i + Len(key) - 1 <= Len(text)
    /\ SubSeq(text, i, i + Len(key) - 1) = key
    /\ (i = 1 \/ ~IsWordChar(text[i - 1]))
    /\ (i + Len(key) > Len(text) \/ ~IsWordChar(text[i + Len(key)]))

\* jsCode.replace(new RegExp("\\bKEY\\b", "g"), value): every match, left to right
RECURSIVE replaceFrom(_, _, _, _)
replaceFrom(text, i, key, value) ==
    IF i > Len(text) THEN << >>
    ELSE IF MatchesAt(text, i, key)
    THEN value \o replaceFrom(text, i + Len(key), key, value)
    ELSE << text[i] >> \o replaceFrom(text, i + 1, key, value)

\* step 10 of parseArduinoCode: the constants are substituted one after another,
\* each over the whole text the previous substitution left
RECURSIVE substituteConstants(_, _)
substituteConstants(jsCode, k) ==
    IF k > Len(ARDUINO_CONSTANTS) THEN jsCode
    ELSE substituteConstants(replaceFrom(jsCode, 1, ARDUINO_CONSTANTS[k].key,
                                         ARDUINO_CONSTANTS[k].value),
                             k + 1)

\* parseArduinoCode for the texts of TextPieces: they hold no placeholder,
\* include, define, type name, void, delay, pin call, Serial or millis, so that
\* steps 0 to 9 find nothing to rewrite and the constants are all that changes
parseArduinoCode(code) == substituteConstants(code, 1)

\* the pieces the texts offered to the transpiler are put together from
TextPieces ==
    { << "H", "I", "G", "H" >>,
      << "D", "4" >>,
      << "O", "U", "T", "P", "U", "T" >>,
      << "H", "I", "G", "H", "E", "R" >>,
      << "x" >>,
      << " " >>,
      << "\"" >>,
      << "'" >>,
      << "/", "/" >>,
      << "/", "*" >>,
      << "*", "/" >>,
      << "\n" >> }

MaxPieces == 3

RECURSIVE Concat(_)
Concat(ps) == IF ps = << >> THEN << >> ELSE Head(ps) \o Concat(Tail(ps))

Texts == {Concat(ps) : ps \in UNION {[1..n -> TextPieces] : n \in 0..MaxPieces}}

\* a text is given to the transpiler
InitParse ==
    /\ EngineInit
    /\ pins = initializePins
    /\ components = << >>
    /\ emitted = << >>
    /\ BusInit
    /\ \E text \in Texts : last = [NoObs EXCEPT !.text = text]

Transpile ==
    /\ last' = [last EXCEPT !.act = "parseArduinoCode",
                            !.output = parseArduinoCode(last.text)]
    /\ UNCHANGED <<engineVars, pins, components, emitted, busVars>>

SpecParse == InitParse /\ [][Transpile]_vars

----------------------------------------------------------------------------
\* The engine offered the validation sketches: load() of any of them, start(),
\* stop() and the host's timers.
ValidationLoad ==
    \E name \in ValidationNames :
        LET S == [load(Cur, name) EXCEPT !.obs.source = name]
        IN  /\ WithinBounds(S)
            /\ Commit(S, "load")

ValidationNext ==
    \/ ValidationLoad
    \/ Start
    \/ Stop
    \/ FireLoopTimer
    \/ FireDelayTimer

SpecValidation == Init /\ [][ValidationNext]_vars

\* The uninterrupted loop: the same loaded engine, started and then left to the
\* host's timers, with no stop(), reset(), run() or load() after the start. The
\* host runs every timer that is due, hence the weak fairness of the two
\* callbacks.
HostLoopTimer ==
    \E i \in OfKind(timers, "loop") :
        LET S == loopCallback([Cur EXCEPT !.timers = RemoveAt(@, i)], timers[i])
        IN  /\ CanFire(timers, i)
            /\ S.loopCount <= MaxLiveLoops
            /\ Commit(S, "loopTimer")

HostDelayTimer ==
    \E i \in OfKind(timers, "delay") :
        LET S == delayCallback([Cur EXCEPT !.timers = RemoveAt(@, i)], timers[i])
        IN  /\ CanFire(timers, i)
            /\ S.loopCount <= MaxLiveLoops
            /\ Commit(S, "delayTimer")

LoopNext ==
    \/ Start
    \/ HostLoopTimer
    \/ HostDelayTimer

SpecLoopFair ==
    /\ InitDelay
    /\ [][LoopNext]_vars
    /\ WF_vars(HostLoopTimer)
    /\ WF_vars(HostDelayTimer)

----------------------------------------------------------------------------
(* Claims about the engine, checked under Spec *)

Published(type) == \E k \in 1..Len(emitted) :
                      emitted[k].topic = "serial-log" /\ emitted[k].type = type

PublishedState(st) == \E k \in 1..Len(emitted) :
                         emitted[k].topic = "engine-state" /\ emitted[k].type = st

(* C1: at most one setup/loop body is executing (started and not yet        *)
(* finished or aborted) at any time, under any interleaving of load, start, *)
(* stop, reset, run and timer callbacks.                                    *)
C1_SingleInvocation == Cardinality(LiveInvocations(timers)) <= 1

(* C2: in every reachable state the scheduler has at most one pending       *)
(* loop-scheduling timer.                                                   *)
C2_SingleLoopTimer == Cardinality(OfKind(timers, "loop")) <= 1

(* C3: an invocation that was suspended in a delay when stop() or reset()   *)
(* was called is aborted at its next quantum boundary and never resumes,    *)
(* whatever was called in between.                                          *)
C3_StoppedNeverResumes ==
    (last.act = "delayTimer" /\ last.stopSeen) => last.outcome = "abort"

(* C4: after stop() is called while a loop invocation waits in a delay      *)
(* longer than one quantum, and as long as nothing but timer callbacks of   *)
(* suspended invocations and of the loop scheduler runs, the engine is      *)
(* Stopped (never Errored), a suspended invocation whose quantum ends       *)
(* aborts, and no loop invocation begins or is scheduled.                   *)
C4_StopAbortsWithinQuantum ==
    last.sinceStop =>
        /\ state = "stopped"
        /\ ~running
        /\ last.loops = 0
        /\ last.armed = 0
        /\ (last.act = "delayTimer" => last.outcome = "abort")

C4_Witness ==
    /\ last.sinceStop
    /\ last.act = "delayTimer"
    /\ last.body = "loop"
    /\ last.arg > CHUNK_SIZE
    /\ last.outcome = "abort"

(* C6: a load() that passes validation and fails at translate/bind          *)
(* publishes an error, returns success = false and leaves getState() as it  *)
(* was before the call.                                                     *)
C6_FailedCompileKeepsState ==
    [][(last'.act = "load" /\ last'.load = "compileError") =>
          /\ ~last'.ok
          /\ Published("error")'
          /\ state' = state]_vars

(* C7: after a load() that returns success = false the engine holds no      *)
(* CompiledProgram of an earlier load.                                      *)
C7_FailedLoadInvalidates ==
    (last.act = "load" /\ ~last.ok) => compiled = "null"

(* C8: a start() that goes ahead (the engine turns Running) invokes setup   *)
(* exactly once and no other step invokes setup; no loop invocation begins  *)
(* while the setup invocation of a start() has not completed; a step in     *)
(* which setup is suspended, cancelled or faults schedules no loop.         *)
C8_SetupOnceThenLoop ==
    /\ last.setups = (IF PublishedState("running") THEN 1 ELSE 0)
    /\ (last.loops > 0 => \A i \in OfKind(timers, "delay") : timers[i].body # "setup")
    /\ (last.body = "setup" /\ last.outcome \in {"abort", "fault", "suspended", "wait"}
            => last.armed = 0)

C10_CancellationSilent ==
    [][last'.outcome = "abort" =>
          /\ emitted' = << >>
          /\ state' = state
          /\ running' = running
          /\ ~last'.thrown]_vars

C10_Witness ==
    /\ last.outcome = "abort"
    /\ last.stopSeen
    /\ state = "idle"

(* C11: start() called while the engine is Running publishes a warning and  *)
(* changes nothing (no setup invoked, no loop scheduled, state, timers and   *)
(* pins as before); start() called with no compiled program publishes an     *)
(* error, throws nothing and leaves the engine as it was.                    *)
C11_StartGuards ==
    [][last'.act = "start" =>
          /\ (state = "running" /\ compiled # "null" =>
                 /\ Published("warn")'
                 /\ UNCHANGED <<engineVars, pins>>
                 /\ last'.setups = 0
                 /\ last'.armed = 0
                 /\ ~last'.thrown)
          /\ (compiled = "null" =>
                 /\ Published("error")'
                 /\ UNCHANGED <<engineVars, pins>>
                 /\ last'.setups = 0
                 /\ ~last'.thrown)]_vars

C11_Witness ==
    /\ last.act = "start"
    /\ last.outcome = "alreadyRunning"
    /\ state = "running"
    /\ Len(timers) > 0

(* C12: in every engine state, stop() leaves the engine Stopped with the     *)
(* running flag clear, and a second stop() right after it leaves the state,  *)
(* the running flag, the loop-timer handle and the pending timers as the     *)
(* first one left them; neither call throws.                                 *)
C12_StopIdempotent ==
    LET S1 == stop(Cur)
        S2 == stop(S1)
    IN  /\ S1.state = "stopped"
        /\ ~S1.running
        /\ S2.state = S1.state
        /\ S2.running = S1.running
        /\ S2.loopTimeout = S1.loopTimeout
        /\ S2.timers = S1.timers
        /\ S2.pins = S1.pins
        /\ ~S1.obs.thrown /\ ~S2.obs.thrown

C12_Witness ==
    /\ last.act = "stop"
    /\ state = "stopped"
    /\ OfKind(timers, "delay") # {}
    /\ stop(Cur).timers = timers

(* C13: reset() leaves the engine Idle, every pin at its defaults, the       *)
(* iteration counter 0 and no compiled program, and the registered           *)
(* components as they were before the call.                                  *)
C13_ResetRestoresDefaults ==
    [][last'.act = "reset" =>
          /\ state' = "idle"
          /\ pins' = initializePins
          /\ loopCount' = 0
          /\ compiled' = "null"
          /\ ~running'
          /\ components' = components
          /\ getAllComponents(components') = getAllComponents(components)]_vars

C13_Witness ==
    /\ last.act = "reset"
    /\ last.arg > 0
    /\ state = "idle"
    /\ getAllComponents(components) = {"led"}

IsPrefix(a, b) == Len(a) <= Len(b) /\ a = SubSeq(b, 1, Len(a))

(* C14: a start() on a constructed or reset engine with default pins, left   *)
(* to its timers (no further call, no external stimulus), publishes during   *)
(* setup and the first loop iteration exactly the pin events the sketch      *)
(* produces on its own; so the run after reset(); load(S); start() repeats   *)
(* the pin-state transitions of the first run of S.                          *)
C14_RerunSameTransitions ==
    /\ (last.win = "open" => IsPrefix(last.trace, PinEvents(firstIteration(compiled))))
    /\ (last.win = "complete" => last.trace = PinEvents(firstIteration(compiled)))

(* C15: run() starts the engine only if its load succeeded, and an          *)
(* invocation that was in flight when run() cleared the pin state performs   *)
(* no pin operation afterwards, also when run() calls overlap.               *)
C15_RunClearsAfterCancellation ==
    /\ (last.act \in {"run", "runTimer"} /\ last.load \in {"invalid", "compileError"}
            => last.setups = 0)
    /\ (last.act = "delayTimer" /\ last.cleared => PinEvents(emitted) = << >>)

----------------------------------------------------------------------------
(* Claims about the event bus, checked under SpecBus and SpecHistory *)

\* a holds entries of b, each once, in b's order (b has no entry twice)
IsSubseq(a, b) ==
    /\ \A i \in 1..Len(a) : IndexOf(b, a[i]) # 0
    /\ \A i, j \in 1..Len(a) : i < j => IndexOf(b, a[i]) < IndexOf(b, a[j])

(* C16: the set of handlers invoked by a publish equals the set subscribed   *)
(* to the topic when the publish began, also when a handler unsubscribes     *)
(* another handler or itself during the delivery pass.                       *)
C16_SnapshotDispatch ==
    busLast.act = "emit" => SeqRange(busLast.invoked) = SeqRange(busLast.before)

C19_HistoryBounded ==
    /\ Len(history) = Min(busLast.count, MAX_HISTORY)
    /\ \A i \in 1..Len(history) :
          history[i].data = busLast.count - Len(history) + i
    /\ getHistory(history, "") = history

C19_Witness ==
    /\ busLast.act = "emit"
    /\ busLast.count > MAX_HISTORY + 1
    /\ Len(history) = MAX_HISTORY

----------------------------------------------------------------------------
(* Claims about the pin state machine, checked under SpecGpio *)

(* C5: in every state reachable by pin operations, a PWM-active pin has     *)
(* digitalValue High when its duty is positive and Low when its duty is 0.  *)

C5_PwmDigitalConsistent ==
    \A g \in VALID_GPIOS :
        pins[g].isPWM =>
            /\ (pins[g].pwmValue > 0 => pins[g].value = HIGH)
            /\ (pins[g].pwmValue = 0 => pins[g].value = LOW)

(* C20: in every state of the pin manager, for every valid pin p and duty d *)
(* of the valid range, analogWrite(p, d) followed at once by digitalRead(p)  *)
(* succeeds and returns HIGH if and only if d > 0.                           *)
C20_AnalogWriteThenRead ==
    \A p \in VALID_GPIOS, d \in DutySamples :
        LET w == analogWrite(pins, components, Num(p), d)
            r == digitalRead(w.pins, Num(p))
        IN  /\ w.ok
            /\ r.ok
            /\ (r.value = HIGH <=> d > 0)

C20_Witness ==
    /\ last.act = "analogWrite"
    /\ last.ok
    /\ last.arg = 0
    /\ pins[last.pin.num].mode = "INPUT_PULLUP"
    /\ pins[last.pin.num].isPWM
    /\ digitalRead(pins, last.pin).value = LOW

\* the events of one topic among evs, in the order they were published
OfTopic(evs, topic) == SelectSeq(evs, LAMBDA e : e.topic = topic)

\* the console warnings among evs with this text
Warnings(evs, msg) == SelectSeq(evs, LAMBDA e : e.topic = "serial-log" /\ e.type = "warn"
                                                 /\ e.msg = msg)

RangeWarning == "valor fuera de rango 0-1023, clamped"

\* the valid pins the operations of the pin specification drive, and one valid pin
\* they never touch, which stays in the default state as the other nine do
ProbePins == {0, 2, 16}

\* integer duties below, at the edges of, inside and above the range 0..1023
DutyProbes == {-PWM_MAX - 1, -1, 0, 1, 512, PWM_MAX - 1, PWM_MAX, PWM_MAX + 1, 2 * PWM_MAX}

(* C21: in every state of the pin manager, for every valid pin p and every   *)
(* integer duty d, analogWrite(p, d) succeeds, stores pwmValue =              *)
(* max(0, min(1023, d)) with the pin PWM-active, and publishes the            *)
(* out-of-range warning if and only if d < 0 or d > 1023.                     *)
C21_AnalogWriteClamps ==
    \A p \in ProbePins, d \in DutyProbes :
        LET w == analogWrite(pins, components, Num(p), d)
            expected == IF d < 0 THEN 0 ELSE IF d > 1023 THEN 1023 ELSE d
        IN  /\ w.ok
            /\ w.pins[p].pwmValue = expected
            /\ w.pins[p].isPWM
            /\ (Len(Warnings(w.evs, RangeWarning)) = 1 <=> (d < 0 \/ d > 1023))
            /\ (Len(Warnings(w.evs, RangeWarning)) = 0 <=> (0 <= d /\ d <= 1023))

C21_Witness ==
    /\ last.act = "analogWrite"
    /\ last.ok
    /\ last.arg = 2000
    /\ pins[last.pin.num].pwmValue = 1023
    /\ pins[last.pin.num].isPWM
    /\ Len(Warnings(emitted, RangeWarning)) = 1

(* C22: in every state of the pin manager, whatever the pin's mode, level,   *)
(* duty and PWM flag, digitalWrite(p, 1) leaves pwmValue 1023 and            *)
(* digitalWrite(p, 0) leaves pwmValue 0, and both leave isPWM false.          *)
C22_DigitalWriteSnapsDuty ==
    \A p \in ProbePins, v \in {LOW, HIGH} :
        LET w == digitalWrite(pins, components, Num(p), v)
        IN  /\ w.ok
            /\ w.pins[p].pwmValue = (IF v = 1 THEN 1023 ELSE 0)
            /\ ~w.pins[p].isPWM

\* a digital write to High on a pin an analog write had left PWM-active with a
\* duty below full scale
C22_Witness ==
    /\ last.act = "analogWrite"
    /\ last.ok
    /\ last.arg = 512
    /\ pins[last.pin.num].isPWM
    /\ pins[last.pin.num].pwmValue = 512
    /\ digitalWrite(pins, components, last.pin, LOW).pins[last.pin.num].pwmValue = 0
    /\ ~digitalWrite(pins, components, last.pin, LOW).pins[last.pin.num].isPWM

(* C23: in every state of the pin manager, for every valid pin p, level v    *)
(* and integer duty d, digitalWrite(p, v) followed by analogWrite(p, d)      *)
(* leaves the same pins as analogWrite(p, d) alone, and the last pwm-change  *)
(* the two writes publish carries the clamped duty, which is d for every d   *)
(* of 0..1023.                                                                *)
C23_AnalogSupersedesDigital ==
    \A p \in ProbePins, d \in {-1, 0, 512, PWM_MAX, PWM_MAX + 1} :
        LET alone == analogWrite(pins, components, Num(p), d).pins
            duty  == IF d < 0 THEN 0 ELSE IF d > 1023 THEN 1023 ELSE d
        IN  \A v \in {LOW, HIGH} :
                LET first  == digitalWrite(pins, components, Num(p), v)
                    second == analogWrite(first.pins, components, Num(p), d)
                    pwm    == OfTopic(first.evs \o second.evs, "pwm-change")
                IN  /\ first.ok /\ second.ok
                    /\ second.pins = alone
                    /\ Len(pwm) = 2
                    /\ pwm[2].pin = p
                    /\ pwm[2].value = duty
                    /\ ((0 <= d /\ d <= 1023) => pwm[2].value = d)

\* a digital write to High has snapped the duty to 1023, and the analog write
\* that follows replaces it
C23_Witness ==
    /\ last.act = "digitalWrite"
    /\ last.ok
    /\ last.arg = HIGH
    /\ pins[last.pin.num].pwmValue = 1023
    /\ ~pins[last.pin.num].isPWM
    /\ analogWrite(pins, components, last.pin, 512).pins[last.pin.num].pwmValue = 512
    /\ analogWrite(pins, components, last.pin, 512).pins[last.pin.num].isPWM

(* C26: in every state of the pin manager, digitalWrite(p, v) on a valid pin *)
(* succeeds and stores v as the level, and publishes the console warning     *)
(* about the missing pinMode(OUTPUT) if and only if the pin's mode is not    *)
(* OUTPUT (unset, INPUT or INPUT_PULLUP).                                     *)
C26_DigitalWriteWarnsUnlessOutput ==
    \A p \in ProbePins, v \in {LOW, HIGH} :
        LET w == digitalWrite(pins, components, Num(p), v)
            n == Len(Warnings(w.evs, "digitalWrite sin pinMode(OUTPUT)"))
        IN  /\ w.ok
            /\ w.pins[p].value = v
            /\ w.pins[p].mode = pins[p].mode
            /\ (pins[p].mode \in {"NONE", "INPUT", "INPUT_PULLUP"} => n = 1)
            /\ (pins[p].mode = "OUTPUT" => Len(OfTopic(w.evs, "serial-log")) = 0)

\* a write of Low to a pull-up input has gone through with the warning
C26_Witness ==
    /\ last.act = "digitalWrite"
    /\ last.ok
    /\ last.arg = LOW
    /\ pins[last.pin.num].mode = "INPUT_PULLUP"
    /\ pins[last.pin.num].value = LOW
    /\ Len(Warnings(emitted, "digitalWrite sin pinMode(OUTPUT)")) = 1

\* what a write to pin p must have published to leave the pin table P2: any
\* warnings first, then pwm-change, pin-change and one component-update per
\* component attached to p, in the order of attachment, each carrying the level
\* and duty P2 holds
OrderedAfterMutation(evs, P2, p) ==
    LET notes == SelectSeq(evs, LAMBDA e : e.topic # "serial-log")
        cs    == MapGet(components, p)
    IN  /\ \A i \in 1..(Len(evs) - Len(notes)) : evs[i].topic = "serial-log"
        /\ Len(notes) = 2 + Len(cs)
        /\ notes[1].topic = "pwm-change"
        /\ notes[1].pin = p
        /\ notes[1].value = P2[p].pwmValue
        /\ notes[2].topic = "pin-change"
        /\ notes[2].pin = p
        /\ notes[2].value = P2[p].value
        /\ notes[2].pwm = P2[p].pwmValue
        /\ notes[2].type = P2[p].mode
        /\ \A i \in 1..Len(cs) :
              /\ notes[2 + i].topic = "component-update"
              /\ notes[2 + i].msg = cs[i].id
              /\ notes[2 + i].pin = p
              /\ notes[2 + i].value = P2[p].value
              /\ notes[2 + i].pwm = P2[p].pwmValue

(* C27: in every state of the pin manager, digitalWrite and analogWrite on a *)
(* valid pin publish, after any console warnings, pwm-change, then           *)
(* pin-change, then one component-update per component attached to that pin, *)
(* and each of these carries the level and duty the write has stored.        *)
C27_WriteEventOrder ==
    \A p \in ProbePins :
        /\ \A v \in {LOW, HIGH} :
              LET w == digitalWrite(pins, components, Num(p), v)
              IN  w.ok /\ OrderedAfterMutation(w.evs, w.pins, p)
        /\ \A d \in ModelDuties :
              LET w == analogWrite(pins, components, Num(p), d)
              IN  w.ok /\ OrderedAfterMutation(w.evs, w.pins, p)

\* an out-of-range analog write to the soft-PWM pin with a component attached:
\* warnings, pwm-change, pin-change, component-update
C27_Witness ==
    /\ last.act = "analogWrite"
    /\ last.ok
    /\ last.pin = Num(SOFT_PWM_GPIO)
    /\ last.arg = 2000
    /\ Len(MapGet(components, SOFT_PWM_GPIO)) = 1
    /\ Len(emitted) = 5
    /\ emitted[3].topic = "pwm-change"
    /\ emitted[4].topic = "pin-change"
    /\ emitted[5].topic = "component-update"
    /\ emitted[5].pwm = pins[SOFT_PWM_GPIO].pwmValue

(* C28: in every state of the pin manager, setExternalValue(p, v) on a valid *)
(* pin succeeds whatever the pin's mode, changes nothing but that pin's      *)
(* level, which becomes v, and publishes exactly one event, a pin-change.    *)
C28_SetExternalValueFrame ==
    \A p \in ProbePins, v \in {LOW, HIGH} :
        LET r == setExternalValue(pins, Num(p), v)
        IN  /\ r.ok
            /\ r.pins = [pins EXCEPT ![p].value = v]
            /\ Len(r.evs) = 1
            /\ r.evs[1].topic = "pin-change"
            /\ r.evs[1].pin = p
            /\ r.evs[1].value = v

\* an external Low on an OUTPUT pin that an analog write left PWM-active
C28_Witness ==
    /\ last.act = "setExternalValue"
    /\ last.ok
    /\ last.arg = LOW
    /\ pins[last.pin.num].mode = "OUTPUT"
    /\ pins[last.pin.num].value = LOW
    /\ pins[last.pin.num].isPWM
    /\ pins[last.pin.num].pwmValue = 512
    /\ Len(emitted) = 1
    /\ emitted[1].topic = "pin-change"

(* C29: in every state of the pin manager, pinMode(p, m) on a valid pin with *)
(* a mode of PIN_MODE sets the mode to m, sets the level to HIGH when m is   *)
(* INPUT_PULLUP and leaves it otherwise, and changes nothing else; with any  *)
(* other mode it throws and leaves the pins as they were.                    *)
C29_PinModeFrame ==
    \A p \in ProbePins :
        /\ \A m \in {"INPUT", "OUTPUT"} :
              /\ pinMode(pins, Num(p), m).ok
              /\ pinMode(pins, Num(p), m).pins = [pins EXCEPT ![p].mode = m]
        /\ pinMode(pins, Num(p), "INPUT_PULLUP").ok
        /\ pinMode(pins, Num(p), "INPUT_PULLUP").pins
              = [pins EXCEPT ![p].mode = "INPUT_PULLUP", ![p].value = HIGH]
        /\ \A m \in {"BOGUS", "ANALOG", ""} :
              /\ ~pinMode(pins, Num(p), m).ok
              /\ pinMode(pins, Num(p), m).pins = pins
              /\ pinMode(pins, Num(p), m).evs = << >>

\* a PWM-active pin at Low with duty 0 has been made a pull-up input
C29_Witness ==
    /\ last.act = "pinMode"
    /\ last.ok
    /\ pins[last.pin.num].mode = "INPUT_PULLUP"
    /\ pins[last.pin.num].value = HIGH
    /\ pins[last.pin.num].isPWM
    /\ pins[last.pin.num].pwmValue = 0

----------------------------------------------------------------------------
(* Claims about pin identifiers, checked under SpecPinId *)

(* C24: in every state of the pin manager, pinMode, digitalWrite,            *)
(* digitalRead, analogWrite, setExternalValue and registerComponent called   *)
(* with an identifier of no valid pin throw, leave the pins and the          *)
(* component registry as they were, and publish nothing.                     *)
C24_InvalidPinRejected ==
    \A id \in InvalidIds :
        LET pm == [m \in PIN_MODE |-> pinMode(pins, id, m)]
            dw == [v \in {LOW, HIGH} |-> digitalWrite(pins, components, id, v)]
            dr == digitalRead(pins, id)
            aw == [d \in ModelDuties |-> analogWrite(pins, components, id, d)]
            sx == [v \in {LOW, HIGH} |-> setExternalValue(pins, id, v)]
            rc == registerComponent(components, id, "led", "LED")
        IN  /\ \A m \in PIN_MODE : ~pm[m].ok /\ pm[m].pins = pins /\ pm[m].evs = << >>
            /\ \A v \in {LOW, HIGH} : ~dw[v].ok /\ dw[v].pins = pins /\ dw[v].evs = << >>
            /\ ~dr.ok /\ dr.evs = << >>
            /\ \A d \in ModelDuties : ~aw[d].ok /\ aw[d].pins = pins /\ aw[d].evs = << >>
            /\ \A v \in {LOW, HIGH} : ~sx[v].ok /\ sx[v].pins = pins /\ sx[v].evs = << >>
            /\ ~rc.ok /\ rc.comps = components /\ rc.evs = << >>

\* an analog write with a word for a pin has failed on a manager whose pin 2 is
\* configured, driven and has a component attached
C24_Witness ==
    /\ last.act = "analogWrite"
    /\ ~last.ok
    /\ last.pin = Str(<< "p", "i", "n" >>)
    /\ emitted = << >>
    /\ pins[2].mode = "OUTPUT"
    /\ pins[2].value = HIGH
    /\ Len(components) = 1

(* C25: in every state of the pin manager, every pin operation called with   *)
(* the board alias, the built-in LED name or the numeric string of pin 2     *)
(* succeeds and leaves the pins, as getPinState reads them, that the same     *)
(* operation called with the number 2 leaves.                                 *)
C25_SameIdentifierGrammar ==
    \A id \in Pin2Ids :
        /\ \A m \in PIN_MODE :
              /\ pinMode(pins, id, m).ok
              /\ getPinState(pinMode(pins, id, m).pins, id)
                    = getPinState(pinMode(pins, Num(2), m).pins, Num(2))
        /\ \A v \in {LOW, HIGH} :
              /\ digitalWrite(pins, components, id, v).ok
              /\ getPinState(digitalWrite(pins, components, id, v).pins, id)
                    = getPinState(digitalWrite(pins, components, Num(2), v).pins, Num(2))
        /\ digitalRead(pins, id) = digitalRead(pins, Num(2))
        /\ \A d \in ModelDuties :
              /\ analogWrite(pins, components, id, d).ok
              /\ getPinState(analogWrite(pins, components, id, d).pins, id)
                    = getPinState(analogWrite(pins, components, Num(2), d).pins, Num(2))
        /\ registerComponent(components, id, "led", "LED")
              = registerComponent(components, Num(2), "led", "LED")
        /\ \A v \in {LOW, HIGH} :
              /\ setExternalValue(pins, id, v).ok
              /\ getPinState(setExternalValue(pins, id, v).pins, id)
                    = getPinState(setExternalValue(pins, Num(2), v).pins, Num(2))

\* the operations other than setExternalValue do accept the whole grammar
C25_ResolvingOperationsAgree ==
    \A id \in Pin2Ids :
        /\ \A m \in PIN_MODE : pinMode(pins, id, m) = pinMode(pins, Num(2), m)
        /\ \A v \in {LOW, HIGH} :
              digitalWrite(pins, components, id, v) = digitalWrite(pins, components, Num(2), v)
        /\ digitalRead(pins, id) = digitalRead(pins, Num(2))
        /\ \A d \in ModelDuties :
              analogWrite(pins, components, id, d) = analogWrite(pins, components, Num(2), d)
        /\ registerComponent(components, id, "led", "LED")
              = registerComponent(components, Num(2), "led", "LED")

\* setExternalValue has been called with the alias of pin 2 and has failed
C25_AliasRejected ==
    /\ last.act = "setExternalValue"
    /\ last.pin = Str(<< "D", "4" >>)
    /\ last.arg = HIGH
    /\ ~last.ok
    /\ pins[2].value = LOW

----------------------------------------------------------------------------
(* Claims about load(), checked under Spec *)

\* the error diagnostics the last step published on the console
ErrorsPublished == SelectSeq(emitted, LAMBDA e : e.topic = "serial-log" /\ e.type = "error")

MissingLoop == "Falta la funcion void loop()"

(* C30: a load() of the source that defines setup() and no loop() returns    *)
(* success = false with exactly one error diagnostic, which names the        *)
(* missing loop(), and the engine holds no compiled program afterwards.      *)
C30_NoLoopRejected ==
    /\ Src("noLoop").hasSetup /\ ~Src("noLoop").hasLoop
    /\ validateCode(Src("noLoop")).errors = << MissingLoop >>
    /\ (last.act = "load" /\ last.load = "invalid") =>
          /\ ~last.ok
          /\ Len(ErrorsPublished) = 1
          /\ ErrorsPublished[1].msg = MissingLoop
          /\ compiled = "null"

\* what does hold: the load fails with that one diagnostic and changes neither
\* the engine state nor the program held
C30_NoLoopDiagnosed ==
    /\ validateCode(Src("noLoop")).errors = << MissingLoop >>
    /\ (last.act = "load" /\ last.load = "invalid") =>
          /\ ~last.ok
          /\ Len(ErrorsPublished) = 1
          /\ ErrorsPublished[1].msg = MissingLoop
          /\ Len(emitted) = 1

\* the load of the source without loop() has failed and the program of an
\* earlier load is still held
C30_EarlierProgramKept ==
    /\ last.act = "load"
    /\ last.load = "invalid"
    /\ ~last.ok
    /\ compiled = "blink"

----------------------------------------------------------------------------
(* Claims about _delay, checked under SpecDelay *)

\* ceil(a / b) for a >= 0, b > 0
CeilDiv(a, b) == (a + b - 1) \div b

(* C34: a timer of a delay fires with the running flag clear if and only if  *)
(* the delay is abandoned there; the time a delay has waited never exceeds   *)
(* 2000 ms; a delay of d <= 50 ms resolves at its first timer, armed for d,  *)
(* and a longer one at timer number ceil(min(d, 2000) / 50), each armed for  *)
(* 50 ms.                                                                     *)
C34_DelayClamped ==
    [][last'.act = "delayTimer" =>
          LET d == WaitMs[compiled]
          IN  /\ (last'.outcome = "abort" <=> ~running)
              /\ last'.waited <= 2000
              /\ last'.outcome = "wait" =>
                    /\ d > 50
                    /\ last'.quanta < CeilDiv(Min(d, 2000), 50)
              /\ last'.outcome \notin {"wait", "abort"} =>
                    /\ d <= 50 => (last'.quanta = 1 /\ last'.waited = d)
                    /\ d > 50 => /\ last'.quanta = CeilDiv(Min(d, 2000), 50)
                                 /\ last'.waited = 50 * last'.quanta]_vars

\* the delay(5000) has resolved at its 40th timer, after 2000 ms
C34_Witness ==
    /\ last.act = "delayTimer"
    /\ compiled = "wait5000"
    /\ last.outcome = "done"
    /\ last.quanta = 40
    /\ last.waited = 2000
    /\ loopCount = 1

----------------------------------------------------------------------------
(* Further claims about the engine, checked under Spec *)

(* C37: in every reachable state the running flag is set if and only if the  *)
(* engine state is Running.                                                   *)
C37_RunningFlagMatchesState ==
    running <=> state = "running"

\* a load() that failed to compile has left a running engine in state Error
C37_ErrorWhileRunning ==
    /\ last.act = "load"
    /\ last.load = "compileError"
    /\ running
    /\ state = "error"

(* C38: every loop invocation runs the loop of the program whose setup the   *)
(* most recent start() invoked.                                               *)
C38_LoopOfStartedProgram ==
    (last.act = "loopTimer" /\ last.loops > 0 /\ last.prog # "null") =>
        last.prog = last.started

\* the timer armed while blink was running has invoked the loop of fade, which a
\* load() compiled afterwards and whose setup never ran
C38_ForeignLoopInvoked ==
    /\ last.act = "loopTimer"
    /\ last.loops = 1
    /\ last.started = "blink"
    /\ last.prog = "fade"
    /\ running

----------------------------------------------------------------------------
(* Claims about the uninterrupted loop, checked under SpecLoopFair *)

\* a loop iteration has completed in the last step and the engine is running
IterationCompleted ==
    /\ last.act \in {"loopTimer", "delayTimer"}
    /\ last.body = "loop"
    /\ last.outcome = "done"
    /\ running

\* a timer armed by _runLoop has invoked loop in the last step
LoopInvoked == last.act = "loopTimer" /\ last.loops = 1

(* C36: a step that completes a loop iteration adds one to the iteration     *)
(* counter and arms one loop timer; the step never invokes loop itself; and, *)
(* the host running its timers, every completed iteration is followed by     *)
(* another loop invocation.                                                   *)
C36_LoopRepeats ==
    /\ [][(last'.body = "loop" /\ last'.outcome = "done") =>
             /\ loopCount' = loopCount + 1
             /\ last'.armed = 1
             /\ Cardinality(OfKind(timers', "loop")) = 1
             /\ (last'.act = "delayTimer" => last'.loops = 0)]_vars
    /\ IterationCompleted ~> LoopInvoked

\* the loop has been invoked again after its second completed iteration
C36_Witness ==
    /\ LoopInvoked
    /\ running
    /\ loopCount = 2
    /\ last.outcome = "suspended"

----------------------------------------------------------------------------
(* Claims about the component registry, checked under SpecRegistry *)

(* C39: after unregisterComponent(id) no attached component has that id, and *)
(* unregistering an id no component has changes nothing and publishes        *)
(* nothing.                                                                   *)
C39_UnregisterRemovesId ==
    [][last'.act = "unregisterComponent" =>
          /\ last'.id \notin getAllComponents(components')
          /\ last'.id \notin getAllComponents(components) =>
                (components' = components /\ emitted' = << >>)]_vars

\* what does hold: one component with that id is removed, or none if there is none
C39_UnregisterRemovesOne ==
    [][last'.act = "unregisterComponent" =>
          /\ last'.id \in getAllComponents(components) =>
                /\ NumComponents(components') = NumComponents(components) - 1
                /\ Len(emitted') = 1
                /\ emitted'[1].topic = "component-unregistered"
          /\ last'.id \notin getAllComponents(components) =>
                (components' = components /\ emitted' = << >>)]_vars

\* "led" has been unregistered and a component with id "led" is still attached
C39_DuplicateRemains ==
    /\ last.act = "unregisterComponent"
    /\ last.id = "led"
    /\ "led" \in getAllComponents(components)

----------------------------------------------------------------------------
(* Claims about re-entrant publishing, checked under SpecRelay *)

\* position in the history of the event with ordinal n
HistoryPos(n) == CHOOSE k \in 1..Len(history) : history[k].data = n

(* C40: every handler receives the events of an emit, those published from  *)
(* inside a callback included, in the order the history records them.        *)
C40_DeliveryInPublishOrder ==
    busLast.act = "emit" =>
        \A i, j \in 1..Len(busLast.received) :
            (i < j /\ busLast.received[i].h = busLast.received[j].h) =>
                HistoryPos(busLast.received[i].data) < HistoryPos(busLast.received[j].data)

\* a handler subscribed after the relay has received the follow-up event before
\* the event that caused it
C40_FollowUpDeliveredFirst ==
    /\ busLast.act = "emit"
    /\ busLast.before = << "relay", "plain" >>
    /\ Len(busLast.received) = 4
    /\ busLast.received[3] = [h |-> "plain", data |-> busLast.count]
    /\ busLast.received[4] = [h |-> "plain", data |-> busLast.count - 1]
    /\ HistoryPos(busLast.count - 1) < HistoryPos(busLast.count)

\* what does hold: every handler subscribed receives every event of the emit once
C40_EveryEventDelivered ==
    busLast.act = "emit" =>
        \A k \in 1..Len(busLast.before) :
            \A n \in {busLast.received[i].data : i \in 1..Len(busLast.received)} :
                Cardinality({i \in 1..Len(busLast.received) :
                                busLast.received[i] = [h |-> busLast.before[k], data |-> n]}) = 1

----------------------------------------------------------------------------
(* Claims about user-defined functions, checked under SpecCall *)

\* the delays pending in invocations of the sketch's function
FunctionDelays(T) == {i \in OfKind(T, "delay") : T[i].body = "fn"}

(* C35: a delay executed in a function called from loop or setup suspends    *)
(* the caller: setup or a loop iteration never completes in a step that      *)
(* leaves such a delay pending.                                              *)
C35_CallerWaitsForFunction ==
    (last.body \in {"setup", "loop"} /\ last.outcome = "done") =>
        FunctionDelays(timers) = {}

\* a loop iteration has completed, the counter is incremented and the next
\* iteration is scheduled while the delay of the function it called has not
\* had its first quantum
C35_IterationCompletedEarly ==
    /\ compiled = "callLoop"
    /\ last.act = "loopTimer"
    /\ last.body = "loop"
    /\ last.outcome = "done"
    /\ loopCount = 1
    /\ last.armed = 1
    /\ \E i \in FunctionDelays(timers) : timers[i].quanta = 0 /\ timers[i].pc = 2
    /\ pins[2].value = HIGH

\* the same for setup: the loop is scheduled while the function's delay is pending
C35_SetupCompletedEarly ==
    /\ compiled = "callSetup"
    /\ last.act = "start"
    /\ last.body = "setup"
    /\ last.outcome = "done"
    /\ last.armed = 1
    /\ FunctionDelays(timers) # {}

----------------------------------------------------------------------------
(* Claims about static validation, checked under SpecValidation *)

PinCalls == {"pinMode", "digitalWrite", "digitalRead", "analogWrite"}

\* the calls of a sketch, among the functions fns, whose pin argument is a
\* numeric literal outside the valid set
InvalidPinCalls(sk, fns) ==
    {i \in 1..Len(Statements(sk)) : /\ Statements(sk)[i].op \in fns
                                    /\ Statements(sk)[i].lit
                                    /\ Statements(sk)[i].pin \notin VALID_GPIOS}

\* the digitalWrite calls of a sketch on a pin no pinMode of the sketch names
UnconfiguredWrites(sk) ==
    {i \in 1..Len(Statements(sk)) :
        /\ Statements(sk)[i].op = "digitalWrite"
        /\ \A k \in 1..Len(Statements(sk)) :
              Statements(sk)[k].op = "pinMode" =>
                  <<Statements(sk)[k].pin, Statements(sk)[k].lit>> #
                  <<Statements(sk)[i].pin, Statements(sk)[i].lit>>}

NegativeDelays(sk) ==
    {i \in 1..Len(Statements(sk)) : /\ Statements(sk)[i].op = "delay"
                                    /\ Statements(sk)[i].lit
                                    /\ Statements(sk)[i].val < 0}

GpioErrors ==
    SelectSeq(ErrorsPublished, LAMBDA e : e.msg = "GPIO no existe en ESP8266")

WritesWarned == Warnings(emitted, "digitalWrite sin previo pinMode()")

(* C31: a load() of a source with a pinMode on a literal pin outside the     *)
(* valid set fails with an error; a load() of a source whose only finding is *)
(* a digitalWrite on a pin without pinMode succeeds with a warning and no    *)
(* error, and the engine holds the compiled program.                         *)
C31_ErrorsBlockWarningsDoNot ==
    (last.act = "load" /\ last.source \in ValidationNames) =>
        LET sk == Src(last.source)
        IN  /\ InvalidPinCalls(sk, {"pinMode"}) # {} =>
                  /\ ~last.ok
                  /\ last.load = "invalid"
                  /\ Len(GpioErrors) > 0
            /\ (/\ InvalidPinCalls(sk, PinCalls) = {}
                /\ NegativeDelays(sk) = {}
                /\ sk.hasSetup /\ sk.hasLoop
                /\ UnconfiguredWrites(sk) # {}) =>
                  /\ last.ok
                  /\ last.load = "ok"
                  /\ compiled = last.source
                  /\ Len(WritesWarned) > 0
                  /\ ErrorsPublished = << >>

\* the same for the sources that have every statement on a line of its own
C31_OneCallPerLine ==
    (last.act = "load" /\ last.source \in ValidationNames /\ ~Src(last.source).joined) =>
        LET sk == Src(last.source)
        IN  /\ InvalidPinCalls(sk, {"pinMode"}) # {} =>
                  /\ ~last.ok
                  /\ last.load = "invalid"
                  /\ Len(GpioErrors) > 0
            /\ (/\ InvalidPinCalls(sk, PinCalls) = {}
                /\ NegativeDelays(sk) = {}
                /\ sk.hasSetup /\ sk.hasLoop
                /\ UnconfiguredWrites(sk) # {}) =>
                  /\ last.ok
                  /\ last.load = "ok"
                  /\ compiled = last.source
                  /\ Len(WritesWarned) > 0
                  /\ ErrorsPublished = << >>

\* a source whose setup is "pinMode(2, OUTPUT); pinMode(99, OUTPUT);" on one
\* line has been loaded with success and is the compiled program
C31_InvalidPinModeCompiled ==
    /\ last.act = "load"
    /\ last.source = "badSecond"
    /\ InvalidPinCalls(Src("badSecond"), {"pinMode"}) # {}
    /\ last.ok
    /\ compiled = "badSecond"
    /\ ErrorsPublished = << >>

\* the source with the lone digitalWrite(5, HIGH) has been loaded: one warning,
\* success, compiled
C31_WarningOnlyCompiled ==
    /\ last.act = "load"
    /\ last.source = "warnWrite"
    /\ last.ok
    /\ compiled = "warnWrite"
    /\ Len(WritesWarned) = 1
    /\ ErrorsPublished = << >>

(* C32: a load() of a source reports one error for every call of pinMode,    *)
(* digitalWrite, digitalRead or analogWrite whose pin is a numeric literal   *)
(* outside the valid set, and does not compile such a source.                *)
C32_EveryInvalidLiteralReported ==
    (last.act = "load" /\ last.source \in ValidationNames) =>
        LET bad == InvalidPinCalls(Src(last.source), PinCalls)
        IN  bad # {} => /\ ~last.ok
                        /\ last.load = "invalid"
                        /\ compiled # last.source
                        /\ Len(GpioErrors) = Cardinality(bad)

\* analogWrite(99, 512) has passed validation and is the compiled program
C32_AnalogWriteNotChecked ==
    /\ last.act = "load"
    /\ last.source = "badAnalog"
    /\ InvalidPinCalls(Src("badAnalog"), {"analogWrite"}) # {}
    /\ last.ok
    /\ compiled = "badAnalog"

\* of the two invalid literals on one line only the first is reported
C32_OneErrorPerLine ==
    /\ last.act = "load"
    /\ last.source = "badFirst"
    /\ Cardinality(InvalidPinCalls(Src("badFirst"), PinCalls)) = 2
    /\ Len(GpioErrors) = 1

\* what validation does report: on every line, the first call of pinMode,
\* digitalWrite or digitalRead with a literal pin, when that literal is invalid
C32_FirstLiteralOfLineReported ==
    (last.act = "load" /\ last.source \in ValidationNames) =>
        LET sk == Src(last.source)
            first(l) == FirstMatch({k \in 1..Len(l) :
                                       l[k].op \in PinCalls \ {"analogWrite"} /\ l[k].lit})
            bad == {i \in 1..Len(Lines(sk)) :
                       /\ first(Lines(sk)[i]) # 0
                       /\ Lines(sk)[i][first(Lines(sk)[i])].pin \notin VALID_GPIOS}
        IN  /\ Len(GpioErrors) = Cardinality(bad)
            /\ bad # {} => (~last.ok /\ last.load = "invalid")

----------------------------------------------------------------------------
(* Claims about the transpiler's constant substitution, checked under SpecParse *)

ConstantKeys == {ARDUINO_CONSTANTS[k].key : k \in 1..Len(ARDUINO_CONSTANTS)}

ValueOf(key) ==
    ARDUINO_CONSTANTS[CHOOSE k \in 1..Len(ARDUINO_CONSTANTS) : ARDUINO_CONSTANTS[k].key = key].value

\* the end of the identifier or number that begins at position i
RECURSIVE WordEnd(_, _)
WordEnd(text, i) ==
    IF i < Len(text) /\ IsWordChar(text[i + 1]) THEN WordEnd(text, i + 1) ELSE i

\* The substitution the claim describes: the text is read as code, string
\* literals ("..."), character literals ('...'), line comments (// to the end of
\* the line) and block comments (/* to */); a constant is replaced where it is a
\* whole identifier of the code, and nothing else changes.
RECURSIVE SubstituteInCode(_, _, _)
SubstituteInCode(text, i, in) ==
    IF i > Len(text) THEN << >>
    ELSE LET c == text[i]
             two == IF i < Len(text) THEN << c, text[i + 1] >> ELSE << c >>
         IN  CASE in = "string" ->
                    << c >> \o SubstituteInCode(text, i + 1,
                                                IF c \in {"\"", "\n"} THEN "code" ELSE in)
               [] in = "char" ->
                    << c >> \o SubstituteInCode(text, i + 1,
                                                IF c \in {"'", "\n"} THEN "code" ELSE in)
               [] in = "line" ->
                    << c >> \o SubstituteInCode(text, i + 1, IF c = "\n" THEN "code" ELSE in)
               [] in = "block" ->
                    IF two = << "*", "/" >>
                    THEN two \o SubstituteInCode(text, i + 2, "code")
                    ELSE << c >> \o SubstituteInCode(text, i + 1, in)
               [] in = "code" ->
                    IF c = "\"" THEN << c >> \o SubstituteInCode(text, i + 1, "string")
                    ELSE IF c = "'" THEN << c >> \o SubstituteInCode(text, i + 1, "char")
                    ELSE IF two = << "/", "/" >> THEN two \o SubstituteInCode(text, i + 2, "line")
                    ELSE IF two = << "/", "*" >> THEN two \o SubstituteInCode(text, i + 2, "block")
                    ELSE IF IsWordChar(c)
                    THEN LET j == WordEnd(text, i)
                             w == SubSeq(text, i, j)
                         IN  (IF w \in ConstantKeys THEN ValueOf(w) ELSE w)
                             \o SubstituteInCode(text, j + 1, "code")
                    ELSE << c >> \o SubstituteInCode(text, i + 1, "code")

\* the text has no string literal, character literal or comment
CodeOnly(text) ==
    \A i \in 1..Len(text) :
        /\ text[i] \notin {"\"", "'"}
        /\ i < Len(text) => << text[i], text[i + 1] >> \notin {<< "/", "/" >>, << "/", "*" >>}

(* C33: the transpiler replaces a constant only where it is a whole          *)
(* identifier of the code; string literals, character literals and comments  *)
(* are in its output as they were in the source.                             *)
C33_SubstitutesOnlyInCode ==
    last.act = "parseArduinoCode" =>
        last.output = SubstituteInCode(last.text, 1, "code")

\* the string literal "HIGH" has become "1"
C33_StringLiteralAltered ==
    /\ last.act = "parseArduinoCode"
    /\ last.text = << "\"", "H", "I", "G", "H", "\"" >>
    /\ last.output = << "\"", "1", "\"" >>

\* the comment //HIGH has become //1
C33_CommentAltered ==
    /\ last.act = "parseArduinoCode"
    /\ last.text = << "/", "/", "H", "I", "G", "H" >>
    /\ last.output = << "/", "/", "1" >>

\* in a text that is code throughout, whole identifiers and only they are replaced
C33_WholeIdentifiersInCode ==
    (last.act = "parseArduinoCode" /\ CodeOnly(last.text)) =>
        last.output = SubstituteInCode(last.text, 1, "code")

\* HIGHER, of which HIGH is a part, has been left as it is next to a replaced HIGH
C33_IdentifierPartKept ==
    /\ last.act = "parseArduinoCode"
    /\ last.text = << "H", "I", "G", "H", " ", "H", "I", "G", "H", "E", "R" >>
    /\ last.output = << "1", " ", "H", "I", "G", "H", "E", "R" >>

====
